---- MODULE Spec2Model ----
(***************************************************************************)
(* Name normalisation of the laptop form: the token join utility, the      *)
(* resolution label mapper and the reactive "full name" updaters of the    *)
(* laptop form script, together with the product import (populateForm) of  *)
(* the Icecat scanner script that writes the same fields.                  *)
(*                                                                         *)
(* A JavaScript string is a sequence of one-character strings; a           *)
(* JavaScript value that may be null, undefined, a string or a number is a *)
(* record [k, s] (kind, text).                                             *)
(***************************************************************************)
EXTENDS Integers, Sequences, FiniteSets

VARIABLES
    form,       \* id -> value of the text/select element with that id
    checked,    \* id -> checked state of the checkbox with that id
    elements,   \* the ids that exist on the page (getElementById finds them)
    listening,  \* TRUE when the reactive script registered its listeners
    last,       \* the last handler that ran on the form
    product,    \* the argument of populateForm while it is the last handler
    cjIn,       \* argument handed to utils.cleanJoin
    cjOut,      \* [called, v]: its return value once called
    mrIn,       \* argument handed to utils.mapResolution
    mrOut,      \* [called, hRes, label]: its local hRes and its return value
    capIn,      \* the capacity handed to the storage capacity conversion
    capOut,     \* [called, v]: the capacity token once computed
    serials,        \* SerialInput: this.serials, the serial of each entry
    allowMultiple,  \* SerialInput: this.options.allowMultiple
    serialCall,     \* SerialInput: the last call, its argument and callback
    buffer,         \* scan detector: the characters buffered so far
    sinceLastKey,   \* scan detector: Date.now() - lastKeyTime in ms, capped
    timeoutId,      \* scan detector: ms until the idle timeout fires, -1 if none
    wedgeCall,      \* scan detector: the last event and the scan it recorded
    gtinInput,        \* IcecatScanner: the value of the GTIN input
    loading,          \* IcecatScanner: fetch button disabled, spinner shown
    fetches,          \* IcecatScanner: the fetchData calls suspended at an await
    icecatCall,       \* IcecatScanner: the last step and what it did
    secureContext,    \* IcecatScanner: the page may use the camera
    html5QrCode,      \* IcecatScanner: this.html5QrCode, 0 when null
    isScannerRunning, \* IcecatScanner: this.isScannerRunning
    instances,        \* the Html5Qrcode objects: "none", "starting", "started"
    pendingStops,     \* the stopScanner calls suspended at await stop()
    currentState,   \* catalog manager: currentCatalog, page, search, showInactive,
                    \* items, loading
    requests,       \* catalog manager: the fetchData calls suspended at an await
    tableBody,      \* catalog manager: the rows rendered in the table
    prevDisabled,   \* catalog manager: dom.prevBtn.disabled
    nextDisabled,   \* catalog manager: dom.nextBtn.disabled
    errorToast,     \* catalog manager: an error toast has been shown
    catalogCall     \* catalog manager: the last handler that ran

formVars == <<form, checked, elements, listening, last, product>>

fnVars == <<cjIn, cjOut, mrIn, mrOut, capIn, capOut>>

serialVars == <<serials, allowMultiple, serialCall>>

wedgeVars == <<buffer, sinceLastKey, timeoutId, wedgeCall>>

fetchVars == <<gtinInput, loading, fetches>>

cameraVars == <<secureContext, html5QrCode, isScannerRunning, instances, pendingStops>>

icecatVars == <<fetchVars, icecatCall, cameraVars>>

catalogVars ==
    <<currentState, requests, tableBody, prevDisabled, nextDisabled, errorToast,
      catalogCall>>

widgetVars == <<serialVars, wedgeVars, icecatVars, catalogVars>>

vars == <<form, checked, elements, listening, last, product, cjIn, cjOut, mrIn, mrOut,
          capIn, capOut, widgetVars>>

-----------------------------------------------------------------------------
(* JavaScript values *)

Str(s) == [k |-> "str", s |-> s]
Num(s) == [k |-> "num", s |-> s]
Null == [k |-> "null", s |-> <<>>]
Undefined == [k |-> "undefined", s |-> <<>>]
Bool(b) == [k |-> "bool", s |-> IF b THEN <<"t", "r", "u", "e">> ELSE <<"f", "a", "l", "s", "e">>]

\* Boolean(p): the truthiness filter(Boolean) and if (...) apply.
Boolean(p) ==
    CASE p.k = "str" -> p.s # <<>>
      [] p.k = "num" -> p.s # <<"0">>
      [] p.k = "bool" -> p.s = <<"t", "r", "u", "e">>
      [] OTHER -> FALSE

\* String(p)
String(p) ==
    CASE p.k = "null" -> <<"n", "u", "l", "l">>
      [] p.k = "undefined" -> <<"u", "n", "d", "e", "f", "i", "n", "e", "d">>
      [] OTHER -> p.s

-----------------------------------------------------------------------------
(* String primitives *)

UpperChars ==
    <<"A", "B", "C", "D", "E", "F", "G", "H", "I", "J", "K", "L", "M",
      "N", "O", "P", "Q", "R", "S", "T", "U", "V", "W", "X", "Y", "Z">>

LowerChars ==
    <<"a", "b", "c", "d", "e", "f", "g", "h", "i", "j", "k", "l", "m",
      "n", "o", "p", "q", "r", "s", "t", "u", "v", "w", "x", "y", "z">>

WhiteSpace == {" ", "\t"}

Digits == <<"0", "1", "2", "3", "4", "5", "6", "7", "8", "9">>

DigitSet == {Digits[i] : i \in 1..10}

DigitValues == [c \in DigitSet |-> (CHOOSE i \in 1..10 : Digits[i] = c) - 1]

IsDigit(c) == c \in DigitSet

DigitVal(c) == DigitValues[c]

UpperSet == {UpperChars[i] : i \in 1..26}

LowerMap == [c \in UpperSet |-> LowerChars[CHOOSE i \in 1..26 : UpperChars[i] = c]]

lowerChar(c) == IF c \in UpperSet THEN LowerMap[c] ELSE c

toLowerCase(s) == [i \in 1..Len(s) |-> lowerChar(s[i])]

upperChar(c) ==
    IF \E i \in 1..26 : LowerChars[i] = c
    THEN UpperChars[CHOOSE i \in 1..26 : LowerChars[i] = c] ELSE c

toUpperCase(s) == [i \in 1..Len(s) |-> upperChar(s[i])]

SetMin(S) == CHOOSE x \in S : \A y \in S : x <= y

SetMax(S) == CHOOSE x \in S : \A y \in S : y <= x

trim(s) ==
    LET ink == {i \in 1..Len(s) : s[i] \notin WhiteSpace}
    IN  IF ink = {} THEN <<>> ELSE SubSeq(s, SetMin(ink), SetMax(ink))

\* hay.includes(needle)
includes(hay, needle) ==
    \E i \in 0..(Len(hay) - Len(needle)) :
        \A j \in 1..Len(needle) : hay[i + j] = needle[j]

RECURSIVE join(_, _)
join(parts, sep) ==
    IF Len(parts) = 0 THEN <<>>
    ELSE IF Len(parts) = 1 THEN parts[1]
    ELSE parts[1] \o sep \o join(Tail(parts), sep)

RECURSIVE DigitsOf(_)
\* the decimal text of a natural number
DigitsOf(n) ==
    IF n < 10 THEN <<Digits[n + 1]>>
    ELSE Append(DigitsOf(n \div 10), Digits[(n % 10) + 1])

-----------------------------------------------------------------------------
(* utils.cleanJoin *)

filterBoolean_none(parts) == parts

filterBoolean(parts) == SelectSeq(parts, Boolean)

pushUnlessRepeat_global(cleanParts, p) ==
    LET part == trim(String(p))
    IN  IF part = <<>> THEN cleanParts
        ELSE IF \A i \in 1..Len(cleanParts) :
                    toLowerCase(part) # toLowerCase(cleanParts[i])
        THEN Append(cleanParts, part)
        ELSE cleanParts

\* the body of the forEach callback: one token against the list kept so far
pushUnlessRepeat(cleanParts, p) ==
    LET part == trim(String(p))
    IN  IF part = <<>> THEN cleanParts
        ELSE IF Len(cleanParts) = 0
                \/ toLowerCase(part) # toLowerCase(cleanParts[Len(cleanParts)])
        THEN Append(cleanParts, part)
        ELSE cleanParts

RECURSIVE forEachPush(_, _)
forEachPush(cleanParts, parts) ==
    IF Len(parts) = 0 THEN cleanParts
    ELSE forEachPush(pushUnlessRepeat(cleanParts, parts[1]), Tail(parts))

cleanJoin(parts) == join(forEachPush(<<>>, filterBoolean(parts)), <<" ">>)

-----------------------------------------------------------------------------
(* parseInt and utils.mapResolution *)

NaN == [nan |-> TRUE, n |-> 0]

Int10(n) == [nan |-> FALSE, n |-> n]

RECURSIVE digitsValue(_, _)
\* the value of the leading decimal digits of s, continuing from acc
digitsValue(s, acc) ==
    IF Len(s) = 0 \/ ~IsDigit(s[1]) THEN acc
    ELSE digitsValue(Tail(s), 10 * acc + DigitVal(s[1]))

RECURSIVE skipWhiteSpace(_)
skipWhiteSpace(s) ==
    IF Len(s) > 0 /\ s[1] \in WhiteSpace THEN skipWhiteSpace(Tail(s)) ELSE s

\* parseInt(s) in radix 10: leading white space and a sign are skipped, the
\* digits that follow are read and everything after them is ignored
parseInt(s) ==
    LET t == skipWhiteSpace(s)
        signed == Len(t) > 0 /\ t[1] \in {"+", "-"}
        u == IF signed THEN Tail(t) ELSE t
    IN  IF Len(u) = 0 \/ ~IsDigit(u[1]) THEN NaN
        ELSE IF signed /\ t[1] = "-" THEN Int10(0 - digitsValue(u, 0))
        ELSE Int10(digitsValue(u, 0))

\* x > c, x >= c, x <= c for a parseInt result (false for NaN)
Gt(x, c) == ~x.nan /\ x.n > c
Ge(x, c) == ~x.nan /\ x.n >= c
Le(x, c) == ~x.nan /\ x.n <= c

digitsAt(s, i, n) == i + n - 1 <= Len(s) /\ \A j \in i..(i + n - 1) : IsDigit(s[j])

RECURSIVE matchDigitRun_whole(_, _)
matchDigitRun_whole(s, i) ==
    IF i + 2 > Len(s) THEN <<>>
    ELSE IF digitsAt(s, i, 3)
    THEN SubSeq(s, i, SetMax({j \in i..Len(s) : digitsAt(s, i, j - i + 1)}))
    ELSE matchDigitRun_whole(s, i + 1)

RECURSIVE matchDigitRun(_, _)
\* s.match(/(\d{3,4})/)[1] searched from position i; <<>> when there is no match
matchDigitRun(s, i) ==
    IF i + 2 > Len(s) THEN <<>>
    ELSE IF digitsAt(s, i, 4) THEN SubSeq(s, i, i + 3)
    ELSE IF digitsAt(s, i, 3) THEN SubSeq(s, i, i + 2)
    ELSE matchDigitRun(s, i + 1)

lFHD == <<"F", "H", "D">>
l2K == <<"2", "K">>
l25K == <<"2", ".", "5", "K">>
l3K == <<"3", "K">>
l4K == <<"4", "K">>
l8K == <<"8", "K">>

labelOf_openFHD(hRes) ==
    IF Ge(hRes, 1800) /\ ~Ge(hRes, 2000) THEN Str(lFHD)
    ELSE IF Ge(hRes, 2000) /\ Le(hRes, 2600) THEN Str(l2K)
    ELSE IF Gt(hRes, 2600) /\ Le(hRes, 2900) THEN Str(l25K)
    ELSE IF Gt(hRes, 2900) /\ Le(hRes, 3400) THEN Str(l3K)
    ELSE IF Gt(hRes, 3400) /\ Le(hRes, 4500) THEN Str(l4K)
    ELSE IF Gt(hRes, 7000) /\ Le(hRes, 8500) THEN Str(l8K)
    ELSE Null

\* the chain of if (hRes ...) return "..." of mapResolution
labelOf(hRes) ==
    IF Ge(hRes, 1800) /\ Le(hRes, 2000) THEN Str(lFHD)
    ELSE IF Gt(hRes, 2000) /\ Le(hRes, 2600) THEN Str(l2K)
    ELSE IF Gt(hRes, 2600) /\ Le(hRes, 2900) THEN Str(l25K)
    ELSE IF Gt(hRes, 2900) /\ Le(hRes, 3400) THEN Str(l3K)
    ELSE IF Gt(hRes, 3400) /\ Le(hRes, 4500) THEN Str(l4K)
    ELSE IF Gt(hRes, 7000) /\ Le(hRes, 8500) THEN Str(l8K)
    ELSE Null

\* the local hRes of mapResolution; NaN stands for the two early returns
hResOf(res) ==
    IF ~Boolean(res) THEN NaN
    ELSE LET match == matchDigitRun(String(res), 1)
         IN  IF match = <<>> THEN NaN ELSE parseInt(match)

mapResolution(res) ==
    IF ~Boolean(res) THEN Null
    ELSE IF matchDigitRun(String(res), 1) = <<>> THEN Null
    ELSE labelOf(hResOf(res))

-----------------------------------------------------------------------------
(* The form: elements, listeners and the reactive updaters *)

ProcessorIds == {"processor_family", "processor_generation", "processor_model"}

ScreenTextIds ==
    {"screen_diagonal_inches", "screen_resolution", "screen_hd_type",
     "screen_panel_type", "screen_refresh_rate"}

ScreenIds == ScreenTextIds \cup {"screen_touchscreen_override"}

DiscreteTextIds ==
    {"discrete_gpu_brand", "discrete_gpu_model", "discrete_gpu_memory_gb",
     "discrete_gpu_memory_type"}

DiscreteIds == DiscreteTextIds \cup {"has_discrete_gpu"}

OnboardIds ==
    {"onboard_gpu_brand", "onboard_gpu_model", "onboard_gpu_family",
     "onboard_gpu_memory_gb"}

StorageTextIds == {"storage_capacity", "storage_media", "storage_form_factor"}

StorageIds == StorageTextIds \cup {"storage_nvme"}

RamIds == {"ram_capacity", "ram_type_detailed", "ram_speed_mhz", "ram_transfer_rate"}

FullNameIds ==
    {"processor_full_name", "screen_full_name", "discrete_gpu_full_name",
     "onboard_gpu_full_name", "storage_full_name", "ram_full_name"}

TextIds ==
    ProcessorIds \cup ScreenTextIds \cup DiscreteTextIds \cup OnboardIds
    \cup StorageTextIds \cup RamIds \cup FullNameIds

CheckIds == {"screen_touchscreen_override", "has_discrete_gpu", "storage_nvme"}

\* document.getElementById(id)?.value || ''
value(f, id) == IF id \in elements THEN f[id] ELSE <<>>

\* document.getElementById(id)?.checked
isChecked(c, id) == id \in elements /\ c[id]

setTarget_unguarded(f, id, fullName) == [f EXCEPT ![id] = fullName]

setTarget_onlyIfEmpty(f, id, fullName) ==
    IF id \in elements /\ f[id] = <<>> THEN [f EXCEPT ![id] = fullName] ELSE f

\* if (target) target.value = fullName
setTarget(f, id, fullName) ==
    IF id \in elements THEN [f EXCEPT ![id] = fullName] ELSE f

\* the string array parts as the values handed to cleanJoin
strs(parts) == [i \in 1..Len(parts) |-> Str(parts[i])]

familyRedundant_caseSensitive(generation, family) == includes(generation, family)

\* generation.toLowerCase().includes(family.toLowerCase())
familyRedundant(generation, family) ==
    includes(toLowerCase(generation), toLowerCase(family))

updateProcessor(f) ==
    LET family == value(f, "processor_family")
        generation == value(f, "processor_generation")
        model == value(f, "processor_model")
        parts == (IF generation # <<>> THEN <<generation>> ELSE <<>>)
                 \o (IF family # <<>> /\ ~familyRedundant(generation, family)
                     THEN <<family>> ELSE <<>>)
                 \o <<model>>
        fullName == cleanJoin(strs(parts))
    IN  setTarget(f, "processor_full_name", fullName)

sLevel == <<"-", "L", "e", "v", "e", "l">>

RECURSIVE replaceLevel(_)
\* panel.replace(/-Level/g, '')
replaceLevel(s) ==
    IF Len(s) < Len(sLevel) THEN s
    ELSE IF SubSeq(s, 1, Len(sLevel)) = sLevel
    THEN replaceLevel(SubSeq(s, Len(sLevel) + 1, Len(s)))
    ELSE <<s[1]>> \o replaceLevel(Tail(s))

hdTypeShown_noLabelOnly(hdType, resLabel) == ~Boolean(resLabel)

\* !resLabel || hdType.toLowerCase() !== resLabel.toLowerCase()
hdTypeShown(hdType, resLabel) ==
    ~Boolean(resLabel) \/ toLowerCase(hdType) # toLowerCase(resLabel.s)

\* refresh && parseInt(refresh) > 60
refreshShown(refresh) == refresh # <<>> /\ Gt(parseInt(refresh), 60)

screenParts_touchFirst(diagonal, resLabel, hdType, panel, refresh, touch) ==
    (IF touch THEN <<<<"T", "o", "u", "c", "h">>>> ELSE <<>>)
    \o (IF diagonal # <<>> THEN <<diagonal \o <<"\"">>>> ELSE <<>>)
    \o (IF Boolean(resLabel) THEN <<resLabel.s>> ELSE <<>>)
    \o (IF hdType # <<>> /\ hdTypeShown(hdType, resLabel) THEN <<hdType>> ELSE <<>>)
    \o (IF panel # <<>> THEN <<replaceLevel(panel)>> ELSE <<>>)
    \o (IF refreshShown(refresh) THEN <<refresh \o <<"H", "z">>>> ELSE <<>>)

\* the array parts of updateScreen after its pushes
screenParts(diagonal, resLabel, hdType, panel, refresh, touch) ==
    (IF diagonal # <<>> THEN <<diagonal \o <<"\"">>>> ELSE <<>>)
    \o (IF Boolean(resLabel) THEN <<resLabel.s>> ELSE <<>>)
    \o (IF hdType # <<>> /\ hdTypeShown(hdType, resLabel) THEN <<hdType>> ELSE <<>>)
    \o (IF panel # <<>> THEN <<replaceLevel(panel)>> ELSE <<>>)
    \o (IF refreshShown(refresh) THEN <<refresh \o <<"H", "z">>>> ELSE <<>>)
    \o (IF touch THEN <<<<"T", "o", "u", "c", "h">>>> ELSE <<>>)

updateScreen(f, c) ==
    LET diagonal == value(f, "screen_diagonal_inches")
        resolution == value(f, "screen_resolution")
        hdType == value(f, "screen_hd_type")
        panel == value(f, "screen_panel_type")
        refresh == value(f, "screen_refresh_rate")
        touch == isChecked(c, "screen_touchscreen_override")
        resLabel == mapResolution(Str(resolution))
        parts == screenParts(diagonal, resLabel, hdType, panel, refresh, touch)
        fullName == cleanJoin(strs(parts))
    IN  setTarget(f, "screen_full_name", fullName)

discreteGate_off(hasDiscrete) == FALSE

\* if (!hasDiscrete) { ... target.value = ''; return; }
discreteGate(hasDiscrete) == ~hasDiscrete

brandRedundant_reversed(brand, model) ==
    includes(toLowerCase(brand), toLowerCase(model))

\* model.toLowerCase().includes(brand.toLowerCase())
brandRedundant(brand, model) ==
    includes(toLowerCase(model), toLowerCase(brand))

updateDiscreteGPU(f, c) ==
    IF discreteGate(isChecked(c, "has_discrete_gpu"))
    THEN setTarget(f, "discrete_gpu_full_name", <<>>)
    ELSE
    LET brand == value(f, "discrete_gpu_brand")
        model == value(f, "discrete_gpu_model")
        memory == value(f, "discrete_gpu_memory_gb")
        type == value(f, "discrete_gpu_memory_type")
        parts == (IF brand # <<>> /\ ~brandRedundant(brand, model)
                  THEN <<brand>> ELSE <<>>)
                 \o <<model>>
                 \o (IF memory # <<>> THEN <<memory \o <<"G", "B">>>> ELSE <<>>)
                 \o (IF type # <<>> THEN <<type>> ELSE <<>>)
        fullName == cleanJoin(strs(parts))
    IN  setTarget(f, "discrete_gpu_full_name", fullName)

familyRedundantOnboard_assembled(family, brand, model) ==
    includes(toLowerCase(brand \o <<" ">> \o model), toLowerCase(family))

\* model.toLowerCase().includes(family.toLowerCase()); brand plays no part
familyRedundantOnboard(family, brand, model) ==
    includes(toLowerCase(model), toLowerCase(family))

updateOnboardGPU(f) ==
    LET brand == value(f, "onboard_gpu_brand")
        model == value(f, "onboard_gpu_model")
        family == value(f, "onboard_gpu_family")
        memory == value(f, "onboard_gpu_memory_gb")
        parts == (IF brand # <<>> /\ ~brandRedundant(brand, model)
                  THEN <<brand>> ELSE <<>>)
                 \o <<model>>
                 \o (IF family # <<>> /\ ~familyRedundantOnboard(family, brand, model)
                     THEN <<family>> ELSE <<>>)
                 \o (IF memory # <<>> THEN <<memory \o <<"G", "B">>>> ELSE <<>>)
        fullName == cleanJoin(strs(parts))
    IN  setTarget(f, "onboard_gpu_full_name", fullName)

capacityInTB_above(capacity) == capacity # <<>> /\ Gt(parseInt(capacity), 1024)

\* capacity && parseInt(capacity) >= 1024
capacityInTB(capacity) == capacity # <<>> /\ Ge(parseInt(capacity), 1024)

\* (n / 1024).toFixed(1): n / 1024 is exact in binary floating point, and
\* toFixed picks the nearest multiple of 0.1, the larger one on a tie
toFixed1(n) ==
    LET tenths == (10 * n + 512) \div 1024
    IN  DigitsOf(tenths \div 10) \o <<".">> \o DigitsOf(tenths % 10)

sDotZero == <<".", "0">>

\* s.replace(/.0/, ''): the first character followed by "0" goes with it
replaceDotZero_anyChar(s) ==
    LET occ == {i \in 1..(Len(s) - 1) : s[i + 1] = "0"}
    IN  IF occ = {} THEN s
        ELSE SubSeq(s, 1, SetMin(occ) - 1) \o SubSeq(s, SetMin(occ) + 2, Len(s))

\* s.replace('.0', ''): the first occurrence of ".0" is removed
replaceDotZero(s) ==
    LET occ == {i \in 1..(Len(s) - 1) : SubSeq(s, i, i + 1) = sDotZero}
    IN  IF occ = {} THEN s
        ELSE SubSeq(s, 1, SetMin(occ) - 1) \o SubSeq(s, SetMin(occ) + 2, Len(s))

\* `${(n / 1024).toFixed(1)}TB`.replace('.0', '')
terabytes(n) == replaceDotZero(toFixed1(n) \o <<"T", "B">>)

\* capStr of updateStorage
capStrOf(capacity) ==
    IF capacityInTB(capacity) THEN terabytes(parseInt(capacity).n)
    ELSE IF capacity # <<>> THEN capacity \o <<"G", "B">>
    ELSE capacity

storageParts_mediaLast(capStr, media, nvme, formFactor) ==
    <<capStr, IF nvme THEN <<"N", "V", "M", "e">> ELSE <<>>, formFactor, media>>

\* [capStr, media, nvme ? 'NVMe' : '', formFactor]
storageParts(capStr, media, nvme, formFactor) ==
    <<capStr, media, IF nvme THEN <<"N", "V", "M", "e">> ELSE <<>>, formFactor>>

updateStorage(f, c) ==
    LET capacity == value(f, "storage_capacity")
        media == value(f, "storage_media")
        nvme == isChecked(c, "storage_nvme")
        formFactor == value(f, "storage_form_factor")
        parts == storageParts(capStrOf(capacity), media, nvme, formFactor)
        fullName == cleanJoin(strs(parts))
    IN  setTarget(f, "storage_full_name", fullName)

ramParts_speedFirst(capacity, type, speed, transfer) ==
    (IF speed # <<>> THEN <<speed \o <<"M", "H", "z">>>> ELSE <<>>)
    \o (IF capacity # <<>> THEN <<capacity \o <<"G", "B">>>> ELSE <<>>)
    \o (IF type # <<>> THEN <<type>> ELSE <<>>)
    \o (IF transfer # <<>> THEN <<transfer \o <<"M", "T", "/", "s">>>> ELSE <<>>)

\* the array parts of updateRAM after its pushes
ramParts(capacity, type, speed, transfer) ==
    (IF capacity # <<>> THEN <<capacity \o <<"G", "B">>>> ELSE <<>>)
    \o (IF type # <<>> THEN <<type>> ELSE <<>>)
    \o (IF speed # <<>> THEN <<speed \o <<"M", "H", "z">>>> ELSE <<>>)
    \o (IF transfer # <<>> THEN <<transfer \o <<"M", "T", "/", "s">>>> ELSE <<>>)

updateRAM(f) ==
    LET capacity == value(f, "ram_capacity")
        type == value(f, "ram_type_detailed")
        speed == value(f, "ram_speed_mhz")
        transfer == value(f, "ram_transfer_rate")
        fullName == cleanJoin(strs(ramParts(capacity, type, speed, transfer)))
    IN  setTarget(f, "ram_full_name", fullName)

callback_textOnly(f, c, id) ==
    IF ~listening \/ id \in CheckIds THEN f
    ELSE IF id \in ProcessorIds THEN updateProcessor(f)
    ELSE IF id \in ScreenIds THEN updateScreen(f, c)
    ELSE IF id \in DiscreteIds THEN updateDiscreteGPU(f, c)
    ELSE IF id \in OnboardIds THEN updateOnboardGPU(f)
    ELSE IF id \in StorageIds THEN updateStorage(f, c)
    ELSE IF id \in RamIds THEN updateRAM(f)
    ELSE f

\* the callback init() registered on element id (input and change), if any
callback(f, c, id) ==
    IF ~listening THEN f
    ELSE IF id \in ProcessorIds THEN updateProcessor(f)
    ELSE IF id \in ScreenIds THEN updateScreen(f, c)
    ELSE IF id \in DiscreteIds THEN updateDiscreteGPU(f, c)
    ELSE IF id \in OnboardIds THEN updateOnboardGPU(f)
    ELSE IF id \in StorageIds THEN updateStorage(f, c)
    ELSE IF id \in RamIds THEN updateRAM(f)
    ELSE f

\* the name of that callback
callbackName(id) ==
    IF ~listening \/ id \notin elements THEN "none"
    ELSE IF id \in ProcessorIds THEN "updateProcessor"
    ELSE IF id \in ScreenIds THEN "updateScreen"
    ELSE IF id \in DiscreteIds THEN "updateDiscreteGPU"
    ELSE IF id \in OnboardIds THEN "updateOnboardGPU"
    ELSE IF id \in StorageIds THEN "updateStorage"
    ELSE IF id \in RamIds THEN "updateRAM"
    ELSE "none"

-----------------------------------------------------------------------------
(* IcecatScanner.populateForm: the product import *)

\* setVal(id, val): assign the value and dispatch a change event, which
\* runs the callback registered on the element before setVal returns (the
\* second dispatch through jQuery runs the same callback on the same form)
setVal(st, id, val) ==
    IF id \in elements
    THEN LET f1 == [st.f EXCEPT ![id] =
                        IF val.k \in {"null", "undefined"} THEN <<>> ELSE String(val)]
         IN  [f |-> callback(f1, st.c, id), c |-> st.c]
    ELSE st

\* setCheck(id, val)
setCheck(st, id, val) ==
    IF id \in elements
    THEN LET c1 == [st.c EXCEPT ![id] = Boolean(val)]
         IN  [f |-> callback(st.f, c1, id), c |-> c1]
    ELSE st

\* x || ""
orEmpty(x) == IF Boolean(x) THEN String(x) ELSE <<>>

\* parts.filter(Boolean).join(' ')
joinTruthy(parts) ==
    join([i \in 1..Len(SelectSeq(parts, Boolean)) |->
             String(SelectSeq(parts, Boolean)[i])], <<" ">>)

\* the forEach callback of populateForm's "Dedup consecutive words"
pushUnlessSame(cleanParts, p) ==
    IF Len(cleanParts) = 0
       \/ toLowerCase(String(p)) # toLowerCase(cleanParts[Len(cleanParts)])
    THEN Append(cleanParts, String(p))
    ELSE cleanParts

RECURSIVE forEachPushSame(_, _)
forEachPushSame(cleanParts, parts) ==
    IF Len(parts) = 0 THEN cleanParts
    ELSE forEachPushSame(pushUnlessSame(cleanParts, parts[1]), Tail(parts))

\* parts.filter(Boolean) deduplicated and joined by ' '
joinDedup(parts) == join(forEachPushSame(<<>>, SelectSeq(parts, Boolean)), <<" ">>)

\* the mapResolution local to populateForm (res is a string or null)
importMapResolution(res) ==
    IF ~Boolean(res) THEN Null
    ELSE LET match == matchDigitRun(res.s, 1)
         IN  IF match = <<>> THEN Null ELSE labelOf(parseInt(match))

\* the calls populateForm makes, in order, as data
SetVal(id, val) == [op |-> "setVal", id |-> id, val |-> val]

SetCheck(id, val) == [op |-> "setCheck", id |-> id, val |-> val]

call(st, s) ==
    IF s.op = "setVal" THEN setVal(st, s.id, s.val) ELSE setCheck(st, s.id, s.val)

RECURSIVE runCalls(_, _)
\* the calls run one after the other, each on the form the previous one left
runCalls(st, calls) ==
    IF Len(calls) = 0 THEN st
    ELSE CHOOSE r \in {runCalls(s1, Tail(calls)) : s1 \in {call(st, calls[1])}} : TRUE

populateProcessor(p) ==
    <<SetVal("processor_family", p.familia),
      SetVal("processor_generation", p.generacion),
      SetVal("processor_model", p.modelo),
      SetVal("processor_full_name", p.nombre_completo)>>

\* if (product.pantalla.tasa_refresco_hz)
importRefreshShown(tasa) == Boolean(tasa)

\* screenFullNameParts of populateForm
importScreenParts(p) ==
    LET resLabel == importMapResolution(p.resolucion)
    IN  <<IF Boolean(p.diagonal_pulgadas)
          THEN Str(String(p.diagonal_pulgadas) \o <<"\"">>) ELSE Str(<<>>)>>
        \o (IF Boolean(resLabel) THEN <<resLabel>> ELSE <<>>)
        \o (IF Boolean(p.tipo_hd) /\ hdTypeShown(p.tipo_hd.s, resLabel)
            THEN <<p.tipo_hd>> ELSE <<>>)
        \o (IF Boolean(p.tipo) THEN <<Str(replaceLevel(p.tipo.s))>> ELSE <<>>)
        \o (IF importRefreshShown(p.tasa_refresco_hz)
            THEN <<Str(String(p.tasa_refresco_hz) \o <<"H", "z">>)>> ELSE <<>>)

populateScreen(p) ==
    <<SetVal("screen_resolution", p.resolucion),
      SetVal("screen_hd_type", p.tipo_hd),
      SetVal("screen_diagonal_inches", p.diagonal_pulgadas),
      SetVal("screen_panel_type", p.tipo),
      SetVal("screen_refresh_rate", p.tasa_refresco_hz),
      SetCheck("screen_touchscreen_override", p.tactil),
      SetVal("screen_full_name", Str(joinTruthy(importScreenParts(p))))>>

\* parts of the discrete full name in populateForm
importDiscreteParts(p) ==
    LET brand == orEmpty(p.marca_dedicada)
        model == orEmpty(p.modelo_dedicado)
    IN  (IF brand # <<>> /\ ~brandRedundant(brand, model)
         THEN <<Str(brand)>> ELSE <<>>)
        \o <<Str(model)>>
        \o <<IF Boolean(p.memoria_dedicada_gb)
             THEN Str(String(p.memoria_dedicada_gb) \o <<"G", "B">>) ELSE Str(<<>>)>>
        \o <<p.tipo_memoria_dedicada>>

\* iParts of populateForm
importOnboardParts(p) ==
    LET iBrand == orEmpty(p.marca_integrada)
        iModel == orEmpty(p.modelo_integrado)
        iFamily == orEmpty(p.familia_integrada)
    IN  (IF iBrand # <<>> /\ ~brandRedundant(iBrand, iModel)
         THEN <<Str(iBrand)>> ELSE <<>>)
        \o <<Str(iModel)>>
        \o (IF iFamily # <<>> /\ ~familyRedundantOnboard(iFamily, iBrand, iModel)
            THEN <<Str(iFamily)>> ELSE <<>>)
        \o <<IF Boolean(p.memoria_integrada_gb)
             THEN Str(String(p.memoria_integrada_gb) \o <<"G", "B">>) ELSE Str(<<>>)>>

populateGraphics(p) ==
    <<SetCheck("has_discrete_gpu", p.tiene_dedicada),
      SetVal("discrete_gpu_brand", p.marca_dedicada),
      SetVal("discrete_gpu_model", p.modelo_dedicado),
      SetVal("discrete_gpu_memory_gb", p.memoria_dedicada_gb),
      SetVal("discrete_gpu_memory_type", p.tipo_memoria_dedicada)>>
    \o (IF Boolean(p.tiene_dedicada)
        THEN <<SetVal("discrete_gpu_full_name",
                      Str(joinDedup(importDiscreteParts(p))))>>
        ELSE <<>>)
    \o <<SetVal("onboard_gpu_brand", p.marca_integrada),
          SetVal("onboard_gpu_model", p.modelo_integrado),
          SetVal("onboard_gpu_family", p.familia_integrada),
          SetVal("onboard_gpu_memory_gb", p.memoria_integrada_gb),
          SetVal("onboard_gpu_full_name", Str(joinDedup(importOnboardParts(p))))>>

\* the value of a number of the product feed (a non-negative integer)
numberOf(val) == digitsValue(val.s, 0)

\* capacityStr of populateForm
importCapacityStr(cap) ==
    IF ~Boolean(cap) THEN <<>>
    ELSE IF numberOf(cap) >= 1024 THEN terabytes(numberOf(cap))
    ELSE String(cap) \o <<"G", "B">>

\* the array joined into storageFullName
importStorageParts(p) ==
    <<Str(importCapacityStr(p.capacidad_total_gb)),
      p.tipo_media,
      IF Boolean(p.nvme) THEN Str(<<"N", "V", "M", "e">>) ELSE Str(<<>>),
      p.factor_forma_ssd>>

populateStorage(p) ==
    <<SetVal("storage_capacity", p.capacidad_total_gb),
      SetVal("storage_media", p.tipo_media),
      SetCheck("storage_nvme", p.nvme),
      SetVal("storage_form_factor", p.factor_forma_ssd),
      SetVal("storage_full_name", Str(joinTruthy(importStorageParts(p))))>>

\* the array joined into ramFullName
importRamParts(p) ==
    <<IF Boolean(p.capacidad_gb)
      THEN Str(String(p.capacidad_gb) \o <<"G", "B">>) ELSE Str(<<>>),
      p.tipo,
      IF Boolean(p.velocidad_mhz)
      THEN Str(String(p.velocidad_mhz) \o <<"M", "H", "z">>) ELSE Str(<<>>),
      IF Boolean(p.tasa_transferencia)
      THEN Str(String(p.tasa_transferencia) \o <<"M", "T", "/", "s">>) ELSE Str(<<>>)>>

populateRam(p) ==
    <<SetVal("ram_capacity", p.capacidad_gb),
      SetVal("ram_type_detailed", p.tipo),
      SetVal("ram_speed_mhz", p.velocidad_mhz),
      SetVal("ram_transfer_rate", p.tasa_transferencia),
      SetVal("ram_full_name", Str(joinTruthy(importRamParts(p))))>>

\* populateForm(product) on the fields of the processor, screen, graphics,
\* storage and RAM sections; a section the product lacks is skipped
populateForm(st, prod) ==
    runCalls(st,
        (IF "procesador" \in prod.has
         THEN populateProcessor(prod.procesador) ELSE <<>>)
        \o (IF "pantalla" \in prod.has
            THEN populateScreen(prod.pantalla) ELSE <<>>)
        \o (IF "tarjeta_grafica" \in prod.has
            THEN populateGraphics(prod.tarjeta_grafica) ELSE <<>>)
        \o (IF "almacenamiento" \in prod.has
            THEN populateStorage(prod.almacenamiento) ELSE <<>>)
        \o (IF "memoria_ram" \in prod.has
            THEN populateRam(prod.memoria_ram) ELSE <<>>))

NoProcesador ==
    [familia |-> Null, generacion |-> Null, modelo |-> Null, nombre_completo |-> Null]

NoPantalla ==
    [resolucion |-> Null, tipo_hd |-> Null, diagonal_pulgadas |-> Null,
     tipo |-> Null, tasa_refresco_hz |-> Null, tactil |-> Null]

NoTarjeta ==
    [tiene_dedicada |-> Null, marca_dedicada |-> Null, modelo_dedicado |-> Null,
     memoria_dedicada_gb |-> Null, tipo_memoria_dedicada |-> Null,
     marca_integrada |-> Null, modelo_integrado |-> Null,
     familia_integrada |-> Null, memoria_integrada_gb |-> Null]

NoAlmacenamiento ==
    [capacidad_total_gb |-> Null, tipo_media |-> Null, nvme |-> Null,
     factor_forma_ssd |-> Null]

NoMemoriaRam ==
    [capacidad_gb |-> Null, tipo |-> Null, velocidad_mhz |-> Null,
     tasa_transferencia |-> Null]

NoProduct ==
    [has |-> {}, procesador |-> NoProcesador, pantalla |-> NoPantalla,
     tarjeta_grafica |-> NoTarjeta, almacenamiento |-> NoAlmacenamiento,
     memoria_ram |-> NoMemoriaRam]

-----------------------------------------------------------------------------
(* The page after the scripts loaded on an empty form *)

NotCalled == [called |-> FALSE, v |-> <<>>]

MrNotCalled == [called |-> FALSE, hRes |-> NaN, label |-> Null]

AllIds == TextIds \cup CheckIds

\* init() ran on a new-laptop form: every field is empty, so every updater
\* wrote the empty name
FormFresh ==
    /\ form = [id \in TextIds |-> <<>>]
    /\ checked = [id \in CheckIds |-> FALSE]
    /\ listening = TRUE
    /\ last = "init"
    /\ product = NoProduct

FormIdle == FormFresh /\ elements = AllIds

FnIdle ==
    /\ cjIn = <<>> /\ cjOut = NotCalled /\ mrIn = Null /\ mrOut = MrNotCalled
    /\ capIn = <<>> /\ capOut = NotCalled

NoCall == [op |-> "none", arg |-> Null, fired |-> FALSE]

\* a SerialInput constructed with the default options
SerialIdle == serials = <<>> /\ allowMultiple = FALSE /\ serialCall = NoCall

minTimeBetweenChars == 50

maxTimeBetweenChars == 100

minCodeLength == 3

NoScan == [op |-> "none", scanned |-> FALSE, code |-> <<>>, arg |-> <<>>]

\* the scan detector after _initScanDetector: lastKeyTime = 0 lies further
\* back than any gap
WedgeIdle ==
    /\ buffer = <<>> /\ sinceLastKey = maxTimeBetweenChars + 1
    /\ timeoutId = -1 /\ wedgeCall = NoScan

MaxInstances == 2

NoStep == [op |-> "none", gtin |-> <<>>, outcome |-> "none"]

\* the IcecatScanner as its constructor leaves it
IcecatIdle ==
    /\ gtinInput = <<>> /\ loading = FALSE /\ fetches = <<>> /\ icecatCall = NoStep
    /\ secureContext = TRUE /\ html5QrCode = 0 /\ isScannerRunning = FALSE
    /\ instances = [i \in 1..MaxInstances |-> "none"] /\ pendingStops = <<>>

\* the rows of the response to a request are named by the request
NoItems == [catalog |-> "", page |-> 0, q |-> <<>>, active_only |-> TRUE]

\* the catalog manager script loaded, before DOMContentLoaded
CatalogIdle ==
    /\ currentState = [currentCatalog |-> "brands", page |-> 1, search |-> <<>>,
                       items |-> NoItems, loading |-> FALSE, showInactive |-> FALSE]
    /\ requests = <<>> /\ tableBody = NoItems
    /\ prevDisabled = FALSE /\ nextDisabled = FALSE /\ errorToast = FALSE
    /\ catalogCall = "none"

\* the widgets of the other scripts, constructed and untouched
WidgetsIdle == SerialIdle /\ WedgeIdle /\ IcecatIdle /\ CatalogIdle

-----------------------------------------------------------------------------
(* Specification of utils.cleanJoin as a pure function *)

MaxParts == 3

CleanJoinTokens ==
    {Null, Undefined, Str(<<>>), Str(<<" ">>),
     Str(<<"A">>), Str(<<"a">>), Str(<<"B">>), Str(<<"A", " ">>),
     Str(<<"A", " ", "B">>)}

SeqsUpTo(S, n) == UNION {[1..m -> S] : m \in 0..n}

InitCleanJoin ==
    /\ cjIn \in SeqsUpTo(CleanJoinTokens, MaxParts)
    /\ cjOut = NotCalled
    /\ mrIn = Null
    /\ mrOut = MrNotCalled
    /\ capIn = <<>>
    /\ capOut = NotCalled
    /\ FormIdle
    /\ WidgetsIdle

CallCleanJoin ==
    /\ ~cjOut.called
    /\ cjOut' = [called |-> TRUE, v |-> cleanJoin(cjIn)]
    /\ UNCHANGED <<formVars, widgetVars, cjIn, mrIn, mrOut, capIn, capOut>>

NextCleanJoin == CallCleanJoin

SpecCleanJoin == InitCleanJoin /\ [][NextCleanJoin]_vars

-----------------------------------------------------------------------------
(* Specification of utils.mapResolution as a pure function *)

ResolutionWidths == 100..9999

\* texts around the pixel count: "1920x1080", "at 1920px", a short digit
\* run before it and one more digit after it, and the bare number
ResolutionFrames ==
    {<< <<>>, <<"x", "1", "0", "8", "0">> >>,
     << <<"a", "t", " ">>, <<"p", "x">> >>,
     << <<"1", "5", " ">>, <<"7">> >>,
     << <<>>, <<>> >>}

ResolutionOddities ==
    {Null, Undefined, Str(<<>>), Str(<<"a", "b", "c">>),
     Str(<<"1", "5", "x", "1", "0">>),
     Str(<<"0", "1", "9", "2">>), Str(<<"0", "1", "9", "2", "0">>),
     Str(<<"1", "2", "3", "4", "5", "6", "7", "8">>),
     Num(<<"1", "9", "2", "0">>), Num(<<"0">>)}

ResolutionInputs ==
    ResolutionOddities \cup
    {Str(f[1] \o DigitsOf(h) \o f[2]) : h \in ResolutionWidths, f \in ResolutionFrames}

InitMapResolution ==
    /\ mrIn \in ResolutionInputs
    /\ mrOut = MrNotCalled
    /\ cjIn = <<>>
    /\ cjOut = NotCalled
    /\ capIn = <<>>
    /\ capOut = NotCalled
    /\ FormIdle
    /\ WidgetsIdle

CallMapResolution ==
    /\ ~mrOut.called
    /\ mrOut' = [called |-> TRUE, hRes |-> hResOf(mrIn), label |-> mapResolution(mrIn)]
    /\ UNCHANGED <<formVars, widgetVars, cjIn, cjOut, mrIn, capIn, capOut>>

NextMapResolution == CallMapResolution

SpecMapResolution == InitMapResolution /\ [][NextMapResolution]_vars

-----------------------------------------------------------------------------
(* Events on the form *)

\* the user types v into the text element id: its input (and change)
\* listener runs on the new value
typeInto(id, v) ==
    /\ id \in elements
    /\ form[id] # v
    /\ form' = callback([form EXCEPT ![id] = v], checked, id)
    /\ last' = callbackName(id)
    /\ product' = NoProduct
    /\ UNCHANGED <<checked, elements, listening, fnVars, widgetVars>>

\* the user clicks the checkbox id: its change listener runs
clickBox(id) ==
    /\ id \in elements
    /\ checked' = [checked EXCEPT ![id] = ~checked[id]]
    /\ form' = callback(form, checked', id)
    /\ last' = callbackName(id)
    /\ product' = NoProduct
    /\ UNCHANGED <<elements, listening, fnVars, widgetVars>>

\* a fetched product is handed to populateForm
import(prod) ==
    /\ LET st == populateForm([f |-> form, c |-> checked], prod)
       IN  form' = st.f /\ checked' = st.c
    /\ last' = "populateForm"
    /\ product' = prod
    /\ UNCHANGED <<elements, listening, fnVars, widgetVars>>

\* a change event is dispatched on element id while its value stays as it is
\* (setVal with the value already there, or the second dispatch by jQuery)
dispatchChange(id) ==
    /\ id \in elements
    /\ form' = callback(form, checked, id)
    /\ last' = callbackName(id)
    /\ product' = NoProduct
    /\ UNCHANGED <<checked, elements, listening, fnVars, widgetVars>>

\* the pages considered: every element present, or the full-name target absent
Pages(target) == {AllIds, AllIds \ {target}}

-----------------------------------------------------------------------------
(* Specification of the processor name *)

sIntel == <<"I", "n", "t", "e", "l">>
sIntelCoreI7 == <<"I", "n", "t", "e", "l", " ", "C", "o", "r", "e", " ", "i", "7">>
sI71260P == <<"i", "7", "-", "1", "2", "6", "0", "P">>

ProcessorValues(id) ==
    CASE id = "processor_generation" -> {<<>>, sIntelCoreI7, <<"R", "y", "z", "e", "n", " ", "7">>, <<"i", "n", "t", "e", "l">>}
      [] id = "processor_family" -> {<<>>, sIntel, <<"c", "o", "r", "e", " ", "I", "7">>, <<"A", "M", "D">>}
      [] id = "processor_model" -> {<<>>, sI71260P, <<"A", "M", "D">>, <<"7", "8", "4", "0", "U">>}

ProcessorProducts ==
    {[NoProduct EXCEPT !.has = {"procesador"}, !.procesador = pr] :
        pr \in [familia : {Null, Str(sIntel)},
                generacion : {Null, Str(sIntelCoreI7)},
                modelo : {Str(sI71260P)},
                nombre_completo : {Null, Str(<<"I", "n", "t", "e", "l", " ", "C", "o", "r", "e", " ", "i", "7", "-", "1", "2", "6", "0", "P">>)}]}

InitProcessor ==
    /\ FormFresh
    /\ elements \in Pages("processor_full_name")
    /\ FnIdle
    /\ WidgetsIdle

InputProcessor == \E id \in ProcessorIds : \E v \in ProcessorValues(id) : typeInto(id, v)

ImportProcessor == \E prod \in ProcessorProducts : import(prod)

NextProcessor == InputProcessor \/ ImportProcessor

SpecProcessor == InitProcessor /\ [][NextProcessor]_vars

-----------------------------------------------------------------------------
(* Specification of the screen name *)

s1920x1080 == <<"1", "9", "2", "0", "x", "1", "0", "8", "0">>
s3840x2160 == <<"3", "8", "4", "0", "x", "2", "1", "6", "0">>
s4KUltraHD == <<"4", "K", " ", "U", "l", "t", "r", "a", " ", "H", "D">>
sIPSLevel == <<"I", "P", "S", "-", "L", "e", "v", "e", "l">>
s15p6 == <<"1", "5", ".", "6">>
s60 == <<"6", "0">>
s120 == <<"1", "2", "0">>

ScreenValues(id) ==
    CASE id = "screen_diagonal_inches" -> {<<>>, s15p6}
      [] id = "screen_resolution" -> {<<>>, s1920x1080, s3840x2160, <<"a", "t", " ", "5", "0", "0", "0", "p", "x">>}
      [] id = "screen_hd_type" -> {<<>>, lFHD, <<"f", "h", "d">>, s4KUltraHD}
      [] id = "screen_panel_type" -> {<<>>, sIPSLevel, sLevel}
      [] id = "screen_refresh_rate" -> {<<>>, s60, s120, <<"a", "b", "c">>}

ScreenProducts ==
    {[NoProduct EXCEPT !.has = {"pantalla"}, !.pantalla = pa] :
        pa \in [resolucion : {Null, Str(s1920x1080), Str(s3840x2160)},
                tipo_hd : {Null, Str(lFHD), Str(s4KUltraHD)},
                diagonal_pulgadas : {Num(s15p6)},
                tipo : {Str(sIPSLevel)},
                tasa_refresco_hz : {Null, Num(s60), Num(s120)},
                tactil : {Bool(FALSE), Bool(TRUE)}]}

InitScreen ==
    /\ FormFresh
    /\ elements \in Pages("screen_full_name")
    /\ FnIdle
    /\ WidgetsIdle

InputScreen == \E id \in ScreenTextIds : \E v \in ScreenValues(id) : typeInto(id, v)

ClickTouch == clickBox("screen_touchscreen_override")

ImportScreen == \E prod \in ScreenProducts : import(prod)

NextScreen == InputScreen \/ ClickTouch \/ ImportScreen

SpecScreen == InitScreen /\ [][NextScreen]_vars

-----------------------------------------------------------------------------
(* Specification of the discrete GPU name *)

sNVIDIA == <<"N", "V", "I", "D", "I", "A">>
sRTX4060 == <<"R", "T", "X", " ", "4", "0", "6", "0">>
sNvidiaGeForce == <<"N", "v", "i", "d", "i", "a", " ", "G", "e", "F", "o", "r", "c", "e", " ", "R", "T", "X", " ", "4", "0", "6", "0">>
sGDDR6 == <<"G", "D", "D", "R", "6">>
s8 == <<"8">>

DiscreteValues(id) ==
    CASE id = "discrete_gpu_brand" -> {<<>>, sNVIDIA, <<"N", "V", "I", "D", "I", "A", " ", "G", "e", "F", "o", "r", "c", "e">>}
      [] id = "discrete_gpu_model" -> {<<>>, sRTX4060, sNvidiaGeForce, <<"G", "e", "F", "o", "r", "c", "e">>}
      [] id = "discrete_gpu_memory_gb" -> {<<>>, s8}
      [] id = "discrete_gpu_memory_type" -> {<<>>, sGDDR6, <<"8", "g", "b">>}

DiscreteProducts ==
    {[NoProduct EXCEPT !.has = {"tarjeta_grafica"}, !.tarjeta_grafica = tg] :
        tg \in {[NoTarjeta EXCEPT !.tiene_dedicada = td, !.marca_dedicada = ma,
                                  !.modelo_dedicado = mo, !.memoria_dedicada_gb = me,
                                  !.tipo_memoria_dedicada = ti] :
                    td \in {Bool(FALSE), Bool(TRUE)},
                    ma \in {Null, Str(sNVIDIA)},
                    mo \in {Null, Str(sRTX4060), Str(sNvidiaGeForce)},
                    me \in {Null, Num(s8)},
                    ti \in {Null, Str(sGDDR6)}}}

InitDiscreteGPU ==
    /\ FormFresh
    /\ elements \in Pages("discrete_gpu_full_name")
    /\ FnIdle
    /\ WidgetsIdle

InputDiscreteGPU ==
    \E id \in DiscreteTextIds : \E v \in DiscreteValues(id) : typeInto(id, v)

ClickHasDiscrete == clickBox("has_discrete_gpu")

ImportDiscreteGPU == \E prod \in DiscreteProducts : import(prod)

NextDiscreteGPU == InputDiscreteGPU \/ ClickHasDiscrete \/ ImportDiscreteGPU

SpecDiscreteGPU == InitDiscreteGPU /\ [][NextDiscreteGPU]_vars

-----------------------------------------------------------------------------
(* Specification of the integrated GPU name *)

sIrisXe == <<"I", "r", "i", "s", " ", "X", "e">>
sIntelUHD == <<"i", "n", "t", "e", "l", " ", "U", "H", "D">>
sIrisXeGraphics == <<"I", "r", "i", "s", " ", "X", "e", " ", "G", "r", "a", "p", "h", "i", "c", "s">>

OnboardValues(id) ==
    CASE id = "onboard_gpu_brand" -> {<<>>, sIntel, sIrisXeGraphics}
      [] id = "onboard_gpu_model" -> {<<>>, sIrisXe, sIntelUHD}
      [] id = "onboard_gpu_family" -> {<<>>, sIntel, <<"x", "e">>}
      [] id = "onboard_gpu_memory_gb" -> {<<>>, s8}

OnboardProducts ==
    {[NoProduct EXCEPT !.has = {"tarjeta_grafica"}, !.tarjeta_grafica = tg] :
        tg \in {[NoTarjeta EXCEPT !.marca_integrada = ma, !.modelo_integrado = mo,
                                  !.familia_integrada = fa,
                                  !.memoria_integrada_gb = me] :
                    ma \in {Null, Str(sIntel)},
                    mo \in {Null, Str(sIrisXe), Str(sIntelUHD)},
                    fa \in {Null, Str(sIntel), Str(<<"x", "e">>)},
                    me \in {Null, Num(s8)}}}

InitOnboardGPU ==
    /\ FormFresh
    /\ elements \in Pages("onboard_gpu_full_name")
    /\ FnIdle
    /\ WidgetsIdle

InputOnboardGPU == \E id \in OnboardIds : \E v \in OnboardValues(id) : typeInto(id, v)

ClickHasDiscreteOnboard == clickBox("has_discrete_gpu")

ImportOnboardGPU == \E prod \in OnboardProducts : import(prod)

NextOnboardGPU == InputOnboardGPU \/ ClickHasDiscreteOnboard \/ ImportOnboardGPU

SpecOnboardGPU == InitOnboardGPU /\ [][NextOnboardGPU]_vars

-----------------------------------------------------------------------------
(* Specification of the storage capacity token as a pure function *)

\* capacities in GB: everything up to 12 TB, and some of 20 TB and more
Capacities == (1..12288) \cup {20480, 30720, 102400, 103424, 1048576}

\* the capacity as the form holds it (text) and as the product feed gives it
CapacityInputs ==
    {Str(<<>>), Null}
    \cup {Str(DigitsOf(n)) : n \in Capacities}
    \cup {Num(DigitsOf(n)) : n \in Capacities}

InitCapacity ==
    /\ capIn \in CapacityInputs
    /\ capOut = NotCalled
    /\ cjIn = <<>>
    /\ cjOut = NotCalled
    /\ mrIn = Null
    /\ mrOut = MrNotCalled
    /\ FormIdle
    /\ WidgetsIdle

\* updateStorage computes capStr from the text of storage_capacity
CallCapStr ==
    /\ ~capOut.called
    /\ capIn.k = "str"
    /\ capOut' = [called |-> TRUE, v |-> capStrOf(capIn.s)]
    /\ UNCHANGED <<formVars, widgetVars, cjIn, cjOut, mrIn, mrOut, capIn>>

\* populateForm computes capacityStr from capacidad_total_gb
CallImportCapacityStr ==
    /\ ~capOut.called
    /\ capIn.k # "str"
    /\ capOut' = [called |-> TRUE, v |-> importCapacityStr(capIn)]
    /\ UNCHANGED <<formVars, widgetVars, cjIn, cjOut, mrIn, mrOut, capIn>>

NextCapacity == CallCapStr \/ CallImportCapacityStr

SpecCapacity == InitCapacity /\ [][NextCapacity]_vars

-----------------------------------------------------------------------------
(* Specification of the storage name *)

s512 == <<"5", "1", "2">>
s1024 == <<"1", "0", "2", "4">>
s1536 == <<"1", "5", "3", "6">>
sSSD == <<"S", "S", "D">>
sM2 == <<"M", ".", "2">>

StorageValues(id) ==
    CASE id = "storage_capacity" -> {<<>>, s512, s1024, <<"a", "b", "c">>}
      [] id = "storage_media" -> {<<>>, sSSD, sM2}
      [] id = "storage_form_factor" -> {<<>>, sM2, <<"m", ".", "2">>}

StorageProducts ==
    {[NoProduct EXCEPT !.has = {"almacenamiento"}, !.almacenamiento = al] :
        al \in [capacidad_total_gb : {Null, Num(s512), Num(s1536)},
                tipo_media : {Null, Str(sSSD), Str(sM2)},
                nvme : {Bool(FALSE), Bool(TRUE)},
                factor_forma_ssd : {Null, Str(sM2)}]}

InitStorage ==
    /\ FormFresh
    /\ elements \in Pages("storage_full_name")
    /\ FnIdle
    /\ WidgetsIdle

InputStorage == \E id \in StorageTextIds : \E v \in StorageValues(id) : typeInto(id, v)

ClickNvme == clickBox("storage_nvme")

ImportStorage == \E prod \in StorageProducts : import(prod)

NextStorage == InputStorage \/ ClickNvme \/ ImportStorage

SpecStorage == InitStorage /\ [][NextStorage]_vars

-----------------------------------------------------------------------------
(* Specification of the RAM name *)

s16 == <<"1", "6">>
sDDR4 == <<"D", "D", "R", "4">>
s3200 == <<"3", "2", "0", "0">>

RamValues(id) ==
    CASE id = "ram_capacity" -> {<<>>, s16, <<"3", "2">>}
      [] id = "ram_type_detailed" -> {<<>>, sDDR4, <<"1", "6", "g", "b">>}
      [] id = "ram_speed_mhz" -> {<<>>, s3200, <<"4", "8", "0", "0">>}
      [] id = "ram_transfer_rate" -> {<<>>, s3200}

RamProducts ==
    {[NoProduct EXCEPT !.has = {"memoria_ram"}, !.memoria_ram = ra] :
        ra \in [capacidad_gb : {Null, Num(s16)},
                tipo : {Null, Str(sDDR4)},
                velocidad_mhz : {Null, Num(s3200)},
                tasa_transferencia : {Null, Str(s3200)}]}

InitRam ==
    /\ FormFresh
    /\ elements \in Pages("ram_full_name")
    /\ FnIdle
    /\ WidgetsIdle

InputRam == \E id \in RamIds : \E v \in RamValues(id) : typeInto(id, v)

ImportRam == \E prod \in RamProducts : import(prod)

NextRam == InputRam \/ ImportRam

SpecRam == InitRam /\ [][NextRam]_vars

-----------------------------------------------------------------------------
(* Specification of the six updaters side by side *)

sX == <<"X">>

\* one field of each component, empty or filled
UpdaterValues(id) ==
    CASE id = "processor_model" -> {<<>>, sI71260P}
      [] id = "screen_diagonal_inches" -> {<<>>, s15p6}
      [] id = "discrete_gpu_model" -> {<<>>, sRTX4060}
      [] id = "onboard_gpu_model" -> {<<>>, sIrisXe}
      [] id = "storage_capacity" -> {<<>>, s1024}
      [] id = "ram_capacity" -> {<<>>, s16}

UpdaterFields ==
    {"processor_model", "screen_diagonal_inches", "discrete_gpu_model",
     "onboard_gpu_model", "storage_capacity", "ram_capacity"}

\* the full-name fields the user overwrites by hand
EditedNames == {"processor_full_name", "discrete_gpu_full_name", "storage_full_name"}

InitUpdaters ==
    /\ FormFresh
    /\ elements \in {AllIds, AllIds \ FullNameIds}
    /\ FnIdle
    /\ WidgetsIdle

InputUpdaters == \E id \in UpdaterFields : \E v \in UpdaterValues(id) : typeInto(id, v)

ClickUpdaters == clickBox("has_discrete_gpu")

EditName == \E id \in EditedNames : typeInto(id, sX)

Redispatch == \E id \in UpdaterFields \cup {"has_discrete_gpu"} : dispatchChange(id)

NextUpdaters == InputUpdaters \/ ClickUpdaters \/ EditName \/ Redispatch

SpecUpdaters == InitUpdaters /\ [][NextUpdaters]_vars

-----------------------------------------------------------------------------
(* Specification of the graphics import, with and without the reactive script *)

\* the page as the server rendered it, before or without reactiveLogic.init:
\* no listener is registered
FormBare ==
    /\ form = [id \in TextIds |-> <<>>]
    /\ checked = [id \in CheckIds |-> FALSE]
    /\ listening = FALSE
    /\ last = "load"
    /\ product = NoProduct

InitGraphicsImport ==
    /\ FormFresh \/ FormBare
    /\ elements = AllIds
    /\ FnIdle
    /\ WidgetsIdle

ImportGraphics == \E prod \in DiscreteProducts : import(prod)

NextGraphicsImport == ImportGraphics

SpecGraphicsImport == InitGraphicsImport /\ [][NextGraphicsImport]_vars

-----------------------------------------------------------------------------
(* Specification of reactiveLogic.init on a form the server filled in *)

init_always(f, c) ==
    updateRAM(updateStorage(updateOnboardGPU(updateDiscreteGPU(
        updateScreen(updateProcessor(f), c), c)), c))

\* if (!document.getElementById('X_full_name')?.value) reactiveLogic.updateX();
\* for the six names in turn
init(f, c) ==
    LET f1 == IF value(f, "processor_full_name") = <<>> THEN updateProcessor(f) ELSE f
        f2 == IF value(f1, "screen_full_name") = <<>> THEN updateScreen(f1, c) ELSE f1
        f3 == IF value(f2, "discrete_gpu_full_name") = <<>>
              THEN updateDiscreteGPU(f2, c) ELSE f2
        f4 == IF value(f3, "onboard_gpu_full_name") = <<>>
              THEN updateOnboardGPU(f3) ELSE f3
        f5 == IF value(f4, "storage_full_name") = <<>> THEN updateStorage(f4, c) ELSE f4
    IN  IF value(f5, "ram_full_name") = <<>> THEN updateRAM(f5) ELSE f5

\* the form of the edit page: constituent fields and names as stored, a name
\* of an element missing from the page holds nothing
InitEditPage ==
    /\ elements \in {AllIds, AllIds \ {"ram_full_name"}}
    /\ \E filled \in SUBSET UpdaterFields :
       \E named \in SUBSET ((EditedNames \cup {"ram_full_name"}) \cap elements) :
          form = [id \in TextIds |->
                     IF id \in filled THEN CHOOSE v \in UpdaterValues(id) : v # <<>>
                     ELSE IF id \in named THEN sX ELSE <<>>]
    /\ \E hasDiscrete \in BOOLEAN :
          checked = [id \in CheckIds |-> id = "has_discrete_gpu" /\ hasDiscrete]
    /\ listening = FALSE
    /\ last = "load"
    /\ product = NoProduct
    /\ FnIdle
    /\ WidgetsIdle

\* DOMContentLoaded: init registers the listeners and fills the empty names
RunInit ==
    /\ ~listening
    /\ listening' = TRUE
    /\ form' = init(form, checked)
    /\ last' = "init"
    /\ UNCHANGED <<checked, elements, product, fnVars, widgetVars>>

InputAfterInit ==
    listening /\ \E id \in UpdaterFields : \E v \in UpdaterValues(id) : typeInto(id, v)

ClickAfterInit == listening /\ clickBox("has_discrete_gpu")

NextInit == RunInit \/ InputAfterInit \/ ClickAfterInit

SpecInit == InitEditPage /\ [][NextInit]_vars

-----------------------------------------------------------------------------
(* Specification of SerialInput: the list of scanned serials *)

\* this.serials.find(s => s.serial === serial)
findSerial(list, serial) == \E i \in 1..Len(list) : list[i] = serial

addSerial_rawCompare(list, serial) ==
    IF ~Boolean(serial) THEN [serials |-> list, fired |-> FALSE]
    ELSE IF findSerial(list, serial.s) THEN [serials |-> list, fired |-> FALSE]
    ELSE [serials |-> Append(IF ~allowMultiple THEN <<>> ELSE list,
                             toUpperCase(trim(serial.s))),
          fired |-> TRUE]

\* addSerial(serial): the list it leaves, and whether onSerialAdded fired
addSerial(list, serial) ==
    IF ~Boolean(serial) THEN [serials |-> list, fired |-> FALSE]
    ELSE IF findSerial(list, toUpperCase(trim(serial.s)))
    THEN [serials |-> list, fired |-> FALSE]
    ELSE [serials |-> Append(IF ~allowMultiple THEN <<>> ELSE list,
                             toUpperCase(trim(serial.s))),
          fired |-> TRUE]

\* removeSerial(serial): findIndex by the serial as given, then splice
removeSerial(list, serial) ==
    IF serial.k = "str" /\ findSerial(list, serial.s)
    THEN LET index == SetMin({i \in 1..Len(list) : list[i] = serial.s})
         IN  [serials |-> SubSeq(list, 1, index - 1)
                              \o SubSeq(list, index + 1, Len(list)),
              fired |-> TRUE]
    ELSE [serials |-> list, fired |-> FALSE]

\* the serials handed to the widget: typed, scanned, or absent
SerialArgs ==
    {Null, Str(<<>>), Str(<<" ">>), Str(<<"a", "b", "1">>), Str(<<"A", "B", "1">>), Str(<<" ", "a", "b", "1", " ">>),
     Str(<<"x", "2">>), Str(<<"X", "2">>), Str(<<"C", "3">>)}

InitSerialInput ==
    /\ serials = <<>>
    /\ allowMultiple \in BOOLEAN
    /\ serialCall = NoCall
    /\ WedgeIdle
    /\ IcecatIdle
    /\ CatalogIdle
    /\ FormIdle
    /\ FnIdle

AddSerial ==
    \E serial \in SerialArgs :
        /\ serials' = addSerial(serials, serial).serials
        /\ serialCall' = [op |-> "addSerial", arg |-> serial,
                          fired |-> addSerial(serials, serial).fired]
        /\ UNCHANGED <<allowMultiple, formVars, fnVars, wedgeVars, icecatVars, catalogVars>>

RemoveSerial ==
    \E serial \in SerialArgs :
        /\ serials' = removeSerial(serials, serial).serials
        /\ serialCall' = [op |-> "removeSerial", arg |-> serial,
                          fired |-> removeSerial(serials, serial).fired]
        /\ UNCHANGED <<allowMultiple, formVars, fnVars, wedgeVars, icecatVars, catalogVars>>

NextSerialInput == AddSerial \/ RemoveSerial

SpecSerialInput == InitSerialInput /\ [][NextSerialInput]_vars

-----------------------------------------------------------------------------
(* Specification of the keyboard-wedge scan detector of BarcodeScanner *)

MaxBuffer == 3

\* the keydown events: letters, a digit, the space bar, Enter, Shift alone,
\* and Ctrl+C
KeyEvents ==
    {[key |-> <<"a">>, keyCode |-> 65, ctrlKey |-> FALSE],
     [key |-> <<"1">>, keyCode |-> 49, ctrlKey |-> FALSE],
     [key |-> <<" ">>, keyCode |-> 32, ctrlKey |-> FALSE],
     [key |-> <<"E", "n", "t", "e", "r">>, keyCode |-> 13, ctrlKey |-> FALSE],
     [key |-> <<"S", "h", "i", "f", "t">>, keyCode |-> 16, ctrlKey |-> FALSE],
     [key |-> <<"c">>, keyCode |-> 67, ctrlKey |-> TRUE]}

\* the time that passes between two events, in ms
Gaps == {20, 60, 150}

suffixKeyCodes == {13}

\* _handleScan(code): the normalised code, recorded unless it is too short
handleScan_untrimmed(code, via) ==
    [op |-> via, scanned |-> Len(code) >= minCodeLength, code |-> toUpperCase(code),
     arg |-> code]

handleScan(code, via) ==
    IF Len(toUpperCase(trim(code))) < minCodeLength
    THEN [op |-> via, scanned |-> FALSE, code |-> <<>>, arg |-> code]
    ELSE [op |-> via, scanned |-> TRUE, code |-> toUpperCase(trim(code)), arg |-> code]

\* the arg of the record is the buffer handed to _handleScan or
\* _handlePossibleScan
\* /^[A-Z0-9\-_.]+$/i
looksLikeSerial(code) ==
    /\ Len(code) > 0
    /\ \A i \in 1..Len(code) :
          \/ code[i] \in DigitSet \/ code[i] \in UpperSet \/ upperChar(code[i]) \in UpperSet
          \/ code[i] \in {"-", "_", "."}

\* _handlePossibleScan(code)
handlePossibleScan(code, via) ==
    IF looksLikeSerial(code) THEN handleScan(code, via)
    ELSE [op |-> via, scanned |-> FALSE, code |-> <<>>, arg |-> code]

\* the buffer once the keydown handler applied its gap test
afterGap(b, timeDiff) ==
    IF timeDiff > maxTimeBetweenChars /\ Len(b) > 0 THEN <<>> ELSE b

InitWedge ==
    /\ WedgeIdle
    /\ SerialIdle
    /\ IcecatIdle
    /\ CatalogIdle
    /\ FormIdle
    /\ FnIdle

\* the suffix key: a buffer long enough is handed to _handleScan, the buffer
\* is emptied and the timeout cleared
KeySuffix ==
    \E e \in KeyEvents :
        /\ e.keyCode \in suffixKeyCodes
        /\ wedgeCall' = IF Len(afterGap(buffer, sinceLastKey)) >= minCodeLength
                        THEN handleScan(afterGap(buffer, sinceLastKey), "suffix")
                        ELSE [op |-> "suffix", scanned |-> FALSE, code |-> <<>>, arg |-> <<>>]
        /\ buffer' = <<>>
        /\ timeoutId' = -1
        /\ sinceLastKey' = 0
        /\ UNCHANGED <<formVars, fnVars, serialVars, icecatVars, catalogVars>>

\* a key with Ctrl held: only lastKeyTime and the gap test
KeyControl ==
    \E e \in KeyEvents :
        /\ e.keyCode \notin suffixKeyCodes
        /\ e.ctrlKey
        /\ buffer' = afterGap(buffer, sinceLastKey)
        /\ sinceLastKey' = 0
        /\ wedgeCall' = [op |-> "control", scanned |-> FALSE, code |-> <<>>, arg |-> <<>>]
        /\ UNCHANGED <<timeoutId, formVars, fnVars, serialVars, icecatVars, catalogVars>>

\* a key that arrives fast enough, or on an empty buffer: its character is
\* appended and the idle timeout restarted
KeyFast ==
    \E e \in KeyEvents :
        /\ e.keyCode \notin suffixKeyCodes
        /\ ~e.ctrlKey
        /\ \/ sinceLastKey < minTimeBetweenChars
           \/ Len(afterGap(buffer, sinceLastKey)) = 0
        /\ Len(buffer) < MaxBuffer
        /\ IF Len(e.key) = 1
           THEN /\ buffer' = afterGap(buffer, sinceLastKey) \o e.key
                /\ timeoutId' = maxTimeBetweenChars * 2
           ELSE /\ buffer' = afterGap(buffer, sinceLastKey)
                /\ timeoutId' = timeoutId
        /\ sinceLastKey' = 0
        /\ wedgeCall' = [op |-> "char", scanned |-> FALSE, code |-> <<>>, arg |-> <<>>]
        /\ UNCHANGED <<formVars, fnVars, serialVars, icecatVars, catalogVars>>

\* a key that arrives too slowly on a non-empty buffer: the buffer restarts
\* with it, the timeout stays as it was
KeySlow ==
    \E e \in KeyEvents :
        /\ e.keyCode \notin suffixKeyCodes
        /\ ~e.ctrlKey
        /\ sinceLastKey >= minTimeBetweenChars
        /\ Len(afterGap(buffer, sinceLastKey)) # 0
        /\ buffer' = IF Len(e.key) = 1 THEN e.key ELSE <<>>
        /\ sinceLastKey' = 0
        /\ wedgeCall' = [op |-> "slow", scanned |-> FALSE, code |-> <<>>, arg |-> <<>>]
        /\ UNCHANGED <<timeoutId, formVars, fnVars, serialVars, icecatVars, catalogVars>>

\* the idle timeout fires
IdleTimeout ==
    /\ timeoutId = 0
    /\ wedgeCall' = IF Len(buffer) >= minCodeLength
                    THEN handlePossibleScan(buffer, "timeout")
                    ELSE [op |-> "timeout", scanned |-> FALSE, code |-> <<>>, arg |-> <<>>]
    /\ buffer' = <<>>
    /\ timeoutId' = -1
    /\ UNCHANGED <<sinceLastKey, formVars, fnVars, serialVars, icecatVars, catalogVars>>

\* time passes, up to the moment the timeout is due
Wait ==
    \E d \in Gaps :
        /\ timeoutId # 0
        /\ LET step == IF timeoutId > 0 /\ timeoutId < d THEN timeoutId ELSE d
           IN  /\ timeoutId' = IF timeoutId = -1 THEN -1 ELSE timeoutId - step
               /\ sinceLastKey' = IF sinceLastKey + step > maxTimeBetweenChars
                                  THEN maxTimeBetweenChars + 1
                                  ELSE sinceLastKey + step
        /\ wedgeCall' = [op |-> "wait", scanned |-> FALSE, code |-> <<>>, arg |-> <<>>]
        /\ UNCHANGED <<buffer, formVars, fnVars, serialVars, icecatVars, catalogVars>>

NextWedge == KeySuffix \/ KeyControl \/ KeyFast \/ KeySlow \/ IdleTimeout \/ Wait

SpecWedge == InitWedge /\ [][NextWedge]_vars

-----------------------------------------------------------------------------
(* Specification of IcecatScanner: the product fetch and the camera scanner *)

MaxFetches == 2

MaxPending == 2

\* what the user types into the GTIN input
GtinTexts == {<<" ">>, <<" ", "1", "2">>}

\* what the camera decodes
DecodedTexts == {<<"1", "2">>}

\* the products the server answers with
IcecatProducts ==
    {[NoProduct EXCEPT !.has = {"memoria_ram"},
                       !.memoria_ram = [NoMemoriaRam EXCEPT !.capacidad_gb = Num(s16)]]}

\* how a suspended fetchData call ends
Outcomes == {"success", "failure", "json throws"}

\* seq with its k-th element taken out
without(seq, k) == SubSeq(seq, 1, k - 1) \o SubSeq(seq, k + 1, Len(seq))

fetchDataEnd_noFinally(outcome) ==
    [loading |-> IF outcome \in {"success", "failure"} THEN FALSE ELSE loading,
     populate |-> outcome = "success"]

\* fetchData from the response on: populateForm on success, and
\* setLoading(false) in the finally block
fetchDataEnd(outcome) == [loading |-> FALSE, populate |-> outcome = "success"]

\* fetchData up to its first await, called with the GTIN input holding
\* text: an empty GTIN returns after the alert, any other enters the
\* loading state and sends the request
fetchData(text, via) ==
    /\ icecatCall' = [op |-> via, gtin |-> text,
                      outcome |-> IF trim(text) = <<>> THEN "alert" ELSE "sent"]
    /\ IF trim(text) = <<>>
       THEN UNCHANGED <<loading, fetches>>
       ELSE /\ loading' = TRUE
            /\ fetches' = Append(fetches, [gtin |-> trim(text), stage |-> "fetch"])

\* stopScanner up to its await: with an instance it suspends at stop(),
\* without one it runs to its end
stopScanner ==
    IF html5QrCode # 0
    THEN /\ pendingStops' = Append(pendingStops, html5QrCode)
         /\ UNCHANGED <<html5QrCode, isScannerRunning, instances>>
    ELSE /\ isScannerRunning' = FALSE
         /\ UNCHANGED <<html5QrCode, pendingStops, instances>>

\* an Html5Qrcode object no reference is left to
Free(i) ==
    /\ instances[i] = "none"
    /\ html5QrCode # i
    /\ \A k \in 1..Len(pendingStops) : pendingStops[k] # i

\* startScanner up to its await: new Html5Qrcode("reader") and start()
startScanner ==
    IF ~secureContext
    THEN UNCHANGED <<html5QrCode, isScannerRunning, instances, pendingStops>>
    ELSE \E i \in 1..MaxInstances :
            /\ Free(i)
            /\ \A j \in 1..(i - 1) : ~Free(j)
            /\ html5QrCode' = i
            /\ instances' = [instances EXCEPT ![i] = "starting"]
            /\ UNCHANGED <<isScannerRunning, pendingStops>>

InitIcecat ==
    /\ gtinInput = <<>> /\ loading = FALSE /\ fetches = <<>> /\ icecatCall = NoStep
    /\ secureContext \in BOOLEAN
    /\ html5QrCode = 0 /\ isScannerRunning = FALSE
    /\ instances = [i \in 1..MaxInstances |-> "none"] /\ pendingStops = <<>>
    /\ SerialIdle
    /\ WedgeIdle
    /\ CatalogIdle
    /\ FormIdle
    /\ FnIdle

TypeGtin ==
    \E text \in GtinTexts :
        /\ gtinInput # text
        /\ gtinInput' = text
        /\ icecatCall' = [op |-> "type", gtin |-> <<>>, outcome |-> "none"]
        /\ UNCHANGED <<loading, fetches, cameraVars, formVars, fnVars, serialVars,
                       wedgeVars, catalogVars>>

\* a click on the fetch button, which a disabled button does not deliver
ClickFetch ==
    /\ ~loading
    /\ Len(fetches) < MaxFetches
    /\ fetchData(gtinInput, "click")
    /\ UNCHANGED <<gtinInput, cameraVars, formVars, fnVars, serialVars, wedgeVars, catalogVars>>

\* Enter in the GTIN input
EnterGtin ==
    /\ Len(fetches) < MaxFetches
    /\ fetchData(gtinInput, "enter")
    /\ UNCHANGED <<gtinInput, cameraVars, formVars, fnVars, serialVars, wedgeVars, catalogVars>>

\* the decode callback of a started instance: it sets the GTIN, calls
\* stopScanner without awaiting it, and calls fetchData
Decode ==
    \E i \in 1..MaxInstances : \E decodedText \in DecodedTexts :
        /\ instances[i] = "started"
        /\ Len(fetches) < MaxFetches
        /\ Len(pendingStops) < MaxPending
        /\ gtinInput' = decodedText
        /\ stopScanner
        /\ fetchData(decodedText, "decode")
        /\ UNCHANGED <<secureContext, formVars, fnVars, serialVars, wedgeVars, catalogVars>>

\* the fetch promise of a suspended call resolves: the call goes on to
\* await response.json()
Respond ==
    \E k \in 1..Len(fetches) :
        /\ fetches[k].stage = "fetch"
        /\ fetches' = [fetches EXCEPT ![k].stage = "json"]
        /\ icecatCall' = [op |-> "response", gtin |-> <<>>, outcome |-> "none"]
        /\ UNCHANGED <<gtinInput, loading, cameraVars, formVars, fnVars, serialVars,
                       wedgeVars, catalogVars>>

\* the fetch promise rejects: catch and finally
FetchThrows ==
    \E k \in 1..Len(fetches) :
        /\ fetches[k].stage = "fetch"
        /\ fetches' = without(fetches, k)
        /\ loading' = fetchDataEnd("fetch throws").loading
        /\ icecatCall' = [op |-> "settled", gtin |-> <<>>, outcome |-> "fetch throws"]
        /\ UNCHANGED <<gtinInput, cameraVars, formVars, fnVars, serialVars, wedgeVars, catalogVars>>

\* response.json() settles: the rest of the try block, and finally
Settle ==
    \E k \in 1..Len(fetches) : \E outcome \in Outcomes : \E prod \in IcecatProducts :
        /\ fetches[k].stage = "json"
        /\ fetches' = without(fetches, k)
        /\ loading' = fetchDataEnd(outcome).loading
        /\ icecatCall' = [op |-> "settled", gtin |-> <<>>, outcome |-> outcome]
        /\ IF fetchDataEnd(outcome).populate
           THEN /\ form' = populateForm([f |-> form, c |-> checked], prod).f
                /\ checked' = populateForm([f |-> form, c |-> checked], prod).c
                /\ last' = "populateForm"
                /\ product' = prod
                /\ UNCHANGED <<elements, listening>>
           ELSE UNCHANGED formVars
        /\ UNCHANGED <<gtinInput, cameraVars, fnVars, serialVars, wedgeVars, catalogVars>>

\* a click on the scanner button
ToggleScanner ==
    /\ IF isScannerRunning
       THEN Len(pendingStops) < MaxPending /\ stopScanner
       ELSE startScanner
    /\ icecatCall' = [op |-> "toggle", gtin |-> <<>>,
                      outcome |-> IF isScannerRunning THEN "stop" ELSE "start"]
    /\ UNCHANGED <<secureContext, fetchVars, formVars, fnVars, serialVars, wedgeVars, catalogVars>>

\* start() of instance i resolves: the camera runs and startScanner goes on
StartResolves ==
    \E i \in 1..MaxInstances :
        /\ instances[i] = "starting"
        /\ instances' = [instances EXCEPT ![i] = "started"]
        /\ isScannerRunning' = TRUE
        /\ icecatCall' = [op |-> "started", gtin |-> <<>>, outcome |-> "none"]
        /\ UNCHANGED <<secureContext, html5QrCode, pendingStops, fetchVars, formVars,
                       fnVars, serialVars, wedgeVars, catalogVars>>

\* start() of instance i rejects: the catch block calls stopScanner, which
\* stops the instance this.html5QrCode refers to now
StartRejects ==
    \E i \in 1..MaxInstances :
        /\ instances[i] = "starting"
        /\ Len(pendingStops) < MaxPending
        /\ IF html5QrCode # 0
           THEN /\ pendingStops' = Append(pendingStops, html5QrCode)
                /\ UNCHANGED <<html5QrCode, isScannerRunning>>
           ELSE /\ isScannerRunning' = FALSE
                /\ UNCHANGED <<html5QrCode, pendingStops>>
        /\ instances' = [instances EXCEPT ![i] = "none"]
        /\ icecatCall' = [op |-> "start failed", gtin |-> <<>>, outcome |-> "none"]
        /\ UNCHANGED <<secureContext, fetchVars, formVars, fnVars, serialVars, wedgeVars, catalogVars>>

\* stop() of a suspended stopScanner call settles (it rejects on an
\* instance that is not running, which the call catches): the call clears
\* the reference and the flag
StopSettles ==
    \E k \in 1..Len(pendingStops) :
        /\ instances' = [instances EXCEPT ![pendingStops[k]] =
                             IF @ = "started" THEN "none" ELSE @]
        /\ pendingStops' = without(pendingStops, k)
        /\ html5QrCode' = 0
        /\ isScannerRunning' = FALSE
        /\ icecatCall' = [op |-> "stopped", gtin |-> <<>>, outcome |-> "none"]
        /\ UNCHANGED <<secureContext, fetchVars, formVars, fnVars, serialVars, wedgeVars, catalogVars>>

NextIcecat ==
    \/ TypeGtin \/ ClickFetch \/ EnterGtin \/ Decode \/ Respond \/ FetchThrows \/ Settle
    \/ ToggleScanner \/ StartResolves \/ StartRejects \/ StopSettles

SpecIcecat == InitIcecat /\ [][NextIcecat]_vars

\* the fetches alone: the camera scanner is off, or on with one instance
\* started
InitIcecatFetch ==
    /\ gtinInput = <<>> /\ loading = FALSE /\ fetches = <<>> /\ icecatCall = NoStep
    /\ secureContext = TRUE
    /\ pendingStops = <<>>
    /\ \/ /\ html5QrCode = 0 /\ isScannerRunning = FALSE
          /\ instances = [i \in 1..MaxInstances |-> "none"]
       \/ /\ html5QrCode = 1 /\ isScannerRunning = TRUE
          /\ instances = [i \in 1..MaxInstances |-> IF i = 1 THEN "started" ELSE "none"]
    /\ SerialIdle
    /\ WedgeIdle
    /\ CatalogIdle
    /\ FormIdle
    /\ FnIdle

NextIcecatFetch ==
    \/ TypeGtin \/ ClickFetch \/ EnterGtin \/ Decode \/ Respond \/ FetchThrows \/ Settle
    \/ StopSettles

SpecIcecatFetch == InitIcecatFetch /\ [][NextIcecatFetch]_vars

-----------------------------------------------------------------------------
(* Specification of the catalog manager: paging, search and loading *)

MaxPage == 2

MaxRequests == 2

\* the keys of CATALOG_CONFIG used, and a type that is not one
CatalogTypes == {"brands", "ram"}

TypesAsked == CatalogTypes \cup {"unknown"}

SearchTexts == {<<>>, <<"a", " ">>}

\* the URLSearchParams and the catalog of the request fetchData sends now
paramsOf(st) ==
    [catalog |-> st.currentCatalog, page |-> st.page, q |-> st.search,
     active_only |-> ~st.showInactive]

\* fetchData up to its await, on the state st the handler prepared: the
\* table is emptied and the request for the parameters of st is sent
fetchCatalog(st, via) ==
    /\ currentState' = [st EXCEPT !.loading = TRUE]
    /\ tableBody' = NoItems
    /\ requests' = Append(requests, paramsOf(st))
    /\ catalogCall' = via
    /\ UNCHANGED <<prevDisabled, nextDisabled, errorToast>>

\* DOMContentLoaded ran loadCatalog on the catalog of the URL
InitCatalog ==
    /\ \E type \in CatalogTypes :
          /\ currentState = [currentCatalog |-> type, page |-> 1, search |-> <<>>,
                             items |-> NoItems, loading |-> TRUE,
                             showInactive |-> FALSE]
          /\ requests = <<[catalog |-> type, page |-> 1, q |-> <<>>,
                           active_only |-> TRUE]>>
    /\ tableBody = NoItems
    /\ prevDisabled = FALSE /\ nextDisabled = FALSE /\ errorToast = FALSE
    /\ catalogCall = "loadCatalog"
    /\ SerialIdle
    /\ WedgeIdle
    /\ IcecatIdle
    /\ FormIdle
    /\ FnIdle

LoadCatalog ==
    \E type \in TypesAsked :
        /\ type \in CatalogTypes
        /\ Len(requests) < MaxRequests
        /\ fetchCatalog([currentState EXCEPT !.currentCatalog = type, !.page = 1,
                                             !.search = <<>>], "loadCatalog")
        /\ UNCHANGED <<formVars, fnVars, serialVars, wedgeVars, icecatVars>>

\* a click on the previous or the next button, unless it is disabled
ChangePage ==
    \E delta \in {-1, 1} :
        /\ IF delta = 1 THEN ~nextDisabled ELSE ~prevDisabled
        /\ currentState.page + delta >= 1
        /\ currentState.page + delta <= MaxPage
        /\ Len(requests) < MaxRequests
        /\ fetchCatalog([currentState EXCEPT !.page = currentState.page + delta],
                        "changePage")
        /\ UNCHANGED <<formVars, fnVars, serialVars, wedgeVars, icecatVars>>

HandleSearch ==
    \E text \in SearchTexts :
        /\ Len(requests) < MaxRequests
        /\ fetchCatalog([currentState EXCEPT !.search = trim(text), !.page = 1],
                        "handleSearch")
        /\ UNCHANGED <<formVars, fnVars, serialVars, wedgeVars, icecatVars>>

HandleShowInactive ==
    \E isChecked_ \in BOOLEAN :
        /\ isChecked_ # currentState.showInactive
        /\ Len(requests) < MaxRequests
        /\ fetchCatalog([currentState EXCEPT !.showInactive = isChecked_, !.page = 1],
                        "handleShowInactive")
        /\ UNCHANGED <<formVars, fnVars, serialVars, wedgeVars, icecatVars>>

\* the response to suspended call k arrives and is rendered
ResponseOk ==
    \E k \in 1..Len(requests) : \E hasMore \in BOOLEAN :
        /\ currentState' = [currentState EXCEPT !.items = requests[k],
                                                !.loading = FALSE]
        /\ tableBody' = requests[k]
        /\ prevDisabled' = (currentState.page = 1)
        /\ nextDisabled' = ~hasMore
        /\ requests' = without(requests, k)
        /\ catalogCall' = "response"
        /\ UNCHANGED <<errorToast, formVars, fnVars, serialVars, wedgeVars, icecatVars>>

\* suspended call k fails: response not ok, or fetch or json() throws
ResponseError ==
    \E k \in 1..Len(requests) :
        /\ currentState' = [currentState EXCEPT !.loading = FALSE]
        /\ errorToast' = TRUE
        /\ requests' = without(requests, k)
        /\ catalogCall' = "error"
        /\ UNCHANGED <<tableBody, prevDisabled, nextDisabled, formVars, fnVars,
                       serialVars, wedgeVars, icecatVars>>

NextCatalog ==
    \/ LoadCatalog \/ ChangePage \/ HandleSearch \/ HandleShowInactive
    \/ ResponseOk \/ ResponseError

SpecCatalog == InitCatalog /\ [][NextCatalog]_vars

-----------------------------------------------------------------------------
(* Properties of utils.cleanJoin *)

\* a token that cleanJoin treats as absent
Blank(p) == p.k \in {"null", "undefined"} \/ trim(p.s) = <<>>

CIEqual(a, b) == toLowerCase(trim(a)) = toLowerCase(trim(b))

RECURSIVE OffsetOf(_, _)
OffsetOf(toks, n) ==
    IF n = 1 THEN 0 ELSE OffsetOf(toks, n - 1) + Len(toks[n - 1]) + 1

\* out is the tokens of toks, in order, with exactly one space between two
IsSpacedConcat(out, toks) ==
    IF Len(toks) = 0 THEN out = <<>>
    ELSE /\ Len(out) = OffsetOf(toks, Len(toks)) + Len(toks[Len(toks)])
         /\ \A n \in 1..Len(toks) :
                /\ SubSeq(out, OffsetOf(toks, n) + 1,
                          OffsetOf(toks, n) + Len(toks[n])) = toks[n]
                /\ n > 1 => out[OffsetOf(toks, n)] = " "

NthOf(K, n) == CHOOSE i \in K : Cardinality({k \in K : k <= i}) = n

\* the trimmed texts of parts at the indices K, in increasing order
TokensAt(parts, K) ==
    [n \in 1..Cardinality(K) |-> trim(parts[NthOf(K, n)].s)]

Candidates(parts) == {i \in 1..Len(parts) : ~Blank(parts[i])}

\* K keeps a candidate unless it equals the kept token right before it
KeepsByRule(parts, K) ==
    \A i \in Candidates(parts) :
        LET before == {k \in K : k < i}
        IN  i \in K <=> \/ before = {}
                        \/ ~CIEqual(parts[i].s, parts[SetMax(before)].s)

KeptSets(parts) == {K \in SUBSET Candidates(parts) : KeepsByRule(parts, K)}

sA == <<"A">>
sB == <<"B">>
sAB == <<"A", " ", "B">>
sABA == <<"A", " ", "B", " ", "A">>

\* C1: cleanJoin keeps a non-empty token unless it is case-insensitively
\* equal to the kept token immediately before it; the kept tokens appear in
\* their original order joined by single spaces, so no two neighbouring kept
\* tokens are case-insensitively equal; ["A","B","A"] gives "A B A" and
\* ["A","A","B"] gives "A B".
Thm_C1_AdjacentOnly ==
    cjOut.called =>
        /\ Cardinality(KeptSets(cjIn)) = 1
        /\ \A K \in KeptSets(cjIn) :
            LET kept == TokensAt(cjIn, K)
            IN  /\ IsSpacedConcat(cjOut.v, kept)
                /\ \A n \in 1..(Len(kept) - 1) :
                       toLowerCase(kept[n]) # toLowerCase(kept[n + 1])
        /\ cjIn = <<Str(sA), Str(sB), Str(sA)>> => cjOut.v = sABA
        /\ cjIn = <<Str(sA), Str(sA), Str(sB)>> => cjOut.v = sAB

Wit_C1_RepeatKept ==
    /\ cjOut.called
    /\ cjIn = <<Str(sA), Str(sB), Str(<<"a">>)>>
    /\ cjOut.v = <<"A", " ", "B", " ", "a">>

NonBlankOnly(parts) == SelectSeq(parts, LAMBDA p : ~Blank(p))

\* in a sequence without absent tokens: the tokens that differ from their
\* left neighbour
DiffersFromLeft(parts) ==
    {i \in 1..Len(parts) :
        i = 1 \/ ~CIEqual(parts[i].s, parts[i - 1].s)}

\* C2: null, undefined, empty and whitespace-only tokens are dropped before
\* duplicate suppression: the result is the adjacent-duplicate-free join of
\* the remaining tokens, so equal tokens separated only by dropped tokens
\* collapse, and a sequence of only such tokens (or none) gives "".
Thm_C2_DropsAbsent ==
    cjOut.called =>
        LET rest == NonBlankOnly(cjIn)
        IN  /\ (\A i \in 1..Len(cjIn) : Blank(cjIn[i])) => cjOut.v = <<>>
            /\ IsSpacedConcat(cjOut.v, TokensAt(rest, DiffersFromLeft(rest)))

Wit_C2_CollapseAcrossNull ==
    /\ cjOut.called
    /\ cjIn = <<Str(sA), Null, Str(<<"a">>)>>
    /\ cjOut.v = sA

-----------------------------------------------------------------------------
(* Properties of utils.mapResolution *)

\* the bucket table: label for lo < h <= hi, or lo <= h <= hi when loIn
BucketTable ==
    {[lo |-> 1800, loIn |-> TRUE, hi |-> 2000, label |-> lFHD],
     [lo |-> 2000, loIn |-> FALSE, hi |-> 2600, label |-> l2K],
     [lo |-> 2600, loIn |-> FALSE, hi |-> 2900, label |-> l25K],
     [lo |-> 2900, loIn |-> FALSE, hi |-> 3400, label |-> l3K],
     [lo |-> 3400, loIn |-> FALSE, hi |-> 4500, label |-> l4K],
     [lo |-> 7000, loIn |-> FALSE, hi |-> 8500, label |-> l8K]}

InBucket(h, r) == (r.lo < h \/ (r.loIn /\ r.lo = h)) /\ h <= r.hi

BucketsOf(h) == {r \in BucketTable : InBucket(h, r)}

\* C3: the extracted integer h is mapped by the bucket table, each h of
\* 100..9999 falling in at most one bucket: FHD for 1800..2000, 2K for
\* 2001..2600, 2.5K for 2601..2900, 3K for 2901..3400, 4K for 3401..4500,
\* 8K for 7001..8500 and null otherwise; a boundary value belongs to the
\* lower bucket.
Thm_C3_BucketTable ==
    (mrOut.called /\ ~mrOut.hRes.nan) =>
        LET h == mrOut.hRes.n
        IN  /\ Cardinality(BucketsOf(h)) <= 1
            /\ \A r \in BucketsOf(h) : mrOut.label = Str(r.label)
            /\ BucketsOf(h) = {} => mrOut.label = Null
            /\ (h < 1800 \/ (4500 < h /\ h <= 7000) \/ h > 8500) => mrOut.label = Null
            /\ h = 2000 => mrOut.label = Str(lFHD)
            /\ h = 2600 => mrOut.label = Str(l2K)
            /\ h = 2900 => mrOut.label = Str(l25K)
            /\ h = 3400 => mrOut.label = Str(l3K)
            /\ h = 4500 => mrOut.label = Str(l4K)
            /\ h = 8500 => mrOut.label = Str(l8K)

Wit_C3_BoundaryLowerBucket ==
    /\ mrOut.called
    /\ mrIn = Str(<<"2", "0", "0", "0">>)
    /\ mrOut.hRes = Int10(2000)
    /\ mrOut.label = Str(lFHD)

TripleStarts(s) == {i \in 1..(Len(s) - 2) : \A j \in i..(i + 2) : IsDigit(s[j])}

RECURSIVE DecValue(_)
DecValue(d) ==
    IF Len(d) = 0 THEN 0
    ELSE 10 * DecValue(SubSeq(d, 1, Len(d) - 1)) + DigitVal(d[Len(d)])

\* the first three digits in a row, and the digit after them if there is one
FirstRun(s) ==
    LET i == SetMin(TripleStarts(s))
    IN  IF i + 3 <= Len(s) /\ IsDigit(s[i + 3])
        THEN SubSeq(s, i, i + 3) ELSE SubSeq(s, i, i + 2)

\* C4: mapResolution returns null for an empty or absent input and for a
\* text without three digits in a row; otherwise it classifies the integer
\* of the first run of 3-4 digits: earlier runs of 1-2 digits are skipped
\* and of a longer run only the first four digits count.
Thm_C4_FirstDigitRun ==
    mrOut.called =>
        IF mrIn.k \in {"null", "undefined"} \/ mrIn = Str(<<>>)
        THEN mrOut.label = Null /\ mrOut.hRes = NaN
        ELSE IF mrIn.k = "str" /\ TripleStarts(mrIn.s) = {}
        THEN mrOut.label = Null /\ mrOut.hRes = NaN
        ELSE mrIn.k = "str" =>
                /\ mrOut.hRes = Int10(DecValue(FirstRun(mrIn.s)))
                /\ mrOut.label = Null <=> BucketsOf(mrOut.hRes.n) = {}

Wit_C4_ShortRunSkippedLongRunCut ==
    /\ mrOut.called
    /\ mrIn = Str(<<"1", "5", " ", "1", "9", "2", "0", "7">>)
    /\ mrOut.hRes = Int10(1920)
    /\ mrOut.label = Str(lFHD)

-----------------------------------------------------------------------------
(* Properties of the processor name *)

\* needle occurs in hay when letter case is ignored
ContainsCI(hay, needle) ==
    \E i \in 1..(Len(hay) - Len(needle) + 1) :
        \A j \in 1..Len(needle) : lowerChar(hay[i + j - 1]) = lowerChar(needle[j])

ProcessorUpdated == last = "updateProcessor" /\ "processor_full_name" \in elements

\* C5: the processor full name is cleanJoin of [generation, family, model],
\* family being included only if it is non-empty and not a case-insensitive
\* substring of generation; with an empty generation a non-empty family is
\* always included, and an empty model leaves the remaining tokens.
Thm_C5_ProcessorName ==
    ProcessorUpdated =>
        LET generation == form["processor_generation"]
            family == form["processor_family"]
            model == form["processor_model"]
            name == form["processor_full_name"]
            famTok == IF family # <<>> /\ ~ContainsCI(generation, family)
                      THEN family ELSE <<>>
        IN  /\ name = cleanJoin(<<Str(generation), Str(famTok), Str(model)>>)
            /\ (generation = <<>> /\ family # <<>>) =>
                   name = cleanJoin(<<Str(family), Str(model)>>)
            /\ model = <<>> => name = cleanJoin(<<Str(generation), Str(famTok)>>)
            /\ (generation = sIntelCoreI7 /\ family = sIntel /\ model = sI71260P) =>
                   name = <<"I", "n", "t", "e", "l", " ", "C", "o", "r", "e", " ", "i", "7", " ", "i", "7", "-", "1", "2", "6", "0", "P">>

Wit_C5_FamilySuppressed ==
    /\ ProcessorUpdated
    /\ form["processor_generation"] = sIntelCoreI7
    /\ form["processor_family"] = <<"c", "o", "r", "e", " ", "I", "7">>
    /\ form["processor_model"] = sI71260P
    /\ form["processor_full_name"] = <<"I", "n", "t", "e", "l", " ", "C", "o", "r", "e", " ", "i", "7", " ", "i", "7", "-", "1", "2", "6", "0", "P">>

-----------------------------------------------------------------------------
(* Properties of the screen name *)

ScreenUpdated == last = "updateScreen" /\ "screen_full_name" \in elements

ScreenWritten ==
    last \in {"updateScreen", "populateForm"} /\ "screen_full_name" \in elements

ScreenName == form["screen_full_name"]

\* the label of the resolution now in the form, <<>> when there is none
LabelText ==
    LET resLabel == mapResolution(Str(form["screen_resolution"]))
    IN  IF resLabel = Null THEN <<>> ELSE resLabel.s

DiagonalToken ==
    IF form["screen_diagonal_inches"] = <<>> THEN <<>>
    ELSE form["screen_diagonal_inches"] \o <<"\"">>

RECURSIVE WithoutLevel(_)
\* s with every occurrence of "-Level" cut out, leftmost first
WithoutLevel(s) ==
    LET occ == {i \in 1..(Len(s) - 5) : SubSeq(s, i, i + 5) = sLevel}
    IN  IF occ = {} THEN s
        ELSE SubSeq(s, 1, SetMin(occ) - 1)
             \o WithoutLevel(SubSeq(s, SetMin(occ) + 6, Len(s)))

PanelToken == WithoutLevel(form["screen_panel_type"])

RefreshToken ==
    IF form["screen_refresh_rate"] = <<>> THEN <<>>
    ELSE form["screen_refresh_rate"] \o <<"H", "z">>

TouchToken == IF checked["screen_touchscreen_override"] THEN <<"T", "o", "u", "c", "h">> ELSE <<>>

\* the name the last writer makes of the six candidate tokens: updateScreen
\* through cleanJoin, populateForm by joining the non-empty ones
NameOfTokens(toks) ==
    IF last = "updateScreen" THEN cleanJoin(strs(toks))
    ELSE join(SelectSeq(toks, LAMBDA x : x # <<>>), <<" ">>)

\* hdType as the rule of C6 includes it
HdTokenByRule ==
    LET hdType == form["screen_hd_type"]
    IN  IF hdType # <<>>
           /\ ~(LabelText # <<>> /\ toLowerCase(hdType) = toLowerCase(LabelText))
        THEN hdType ELSE <<>>

HdRuleHolds ==
    \E rf \in {<<>>, RefreshToken} : \E tc \in {<<>>, TouchToken} :
        ScreenName = NameOfTokens(
            <<DiagonalToken, LabelText, HdTokenByRule, PanelToken, rf, tc>>)

RECURSIVE Words(_)
\* the maximal space-free pieces of s, in order
Words(s) ==
    LET sp == {i \in 1..Len(s) : s[i] = " "}
    IN  IF s = <<>> THEN <<>>
        ELSE IF sp = {} THEN <<s>>
        ELSE (IF SetMin(sp) > 1 THEN <<SubSeq(s, 1, SetMin(sp) - 1)>> ELSE <<>>)
             \o Words(SubSeq(s, SetMin(sp) + 1, Len(s)))

TierLabels == {lFHD, l2K, l25K, l3K, l4K, l8K}

LabelTwiceInARow(s) ==
    \E n \in 1..(Len(Words(s)) - 1) : \E lab \in TierLabels :
        /\ toLowerCase(Words(s)[n]) = toLowerCase(lab)
        /\ toLowerCase(Words(s)[n + 1]) = toLowerCase(lab)

\* C6 as stated: hdType is omitted exactly when a label exists and hdType
\* equals it ignoring case, and therefore the screen full name never shows
\* the same tier label twice in a row.
Cex_C6_NeverLabelTwice ==
    ScreenWritten => (HdRuleHolds /\ ~LabelTwiceInARow(ScreenName))

\* C6 amended: hdType is omitted exactly when a label exists and hdType equals
\* it ignoring case, and is included otherwise; a hdType that only begins
\* with the label, such as "4K Ultra HD" after the label "4K", is kept whole,
\* and the name then reads "4K 4K Ultra HD".
Thm_C6_HdTypeRule ==
    ScreenWritten =>
        /\ HdRuleHolds
        /\ (LabelText = l4K /\ form["screen_hd_type"] = s4KUltraHD) =>
               includes(ScreenName, <<"4", "K", " ", "4", "K", " ", "U", "l", "t", "r", "a", " ", "H", "D">>)
        /\ (/\ ScreenUpdated
            /\ form["screen_diagonal_inches"] = s15p6
            /\ form["screen_resolution"] = s1920x1080
            /\ form["screen_hd_type"] = lFHD
            /\ form["screen_panel_type"] = sIPSLevel
            /\ form["screen_refresh_rate"] = s60
            /\ ~checked["screen_touchscreen_override"]) =>
               ScreenName = s15p6 \o <<"\"", " ", "F", "H", "D", " ", "I", "P", "S">>

Wit_C6_HdTypeEqualToLabelOmitted ==
    /\ ScreenUpdated
    /\ form["screen_resolution"] = s1920x1080
    /\ form["screen_hd_type"] = <<"f", "h", "d">>
    /\ form["screen_panel_type"] = sIPSLevel
    /\ ScreenName = <<"F", "H", "D", " ", "I", "P", "S">>

AllDigits(s) == s # <<>> /\ \A i \in 1..Len(s) : IsDigit(s[i])

\* the refresh rate in the form is a number above 60
RefreshAbove60 ==
    AllDigits(form["screen_refresh_rate"]) /\ DecValue(form["screen_refresh_rate"]) > 60

HasRefreshToken ==
    /\ RefreshToken # <<>>
    /\ \E n \in 1..Len(Words(ScreenName)) : Words(ScreenName)[n] = RefreshToken

\* C7: the screen full name holds the token "<refresh>Hz" if and only if
\* the refresh rate is greater than 60; a rate of exactly 60, below 60,
\* empty or non-numeric contributes no token.
Cex_C7_RefreshOnlyAbove60 ==
    ScreenWritten => (HasRefreshToken <=> RefreshAbove60)

\* C8: the screen full name lists, in this order, the diagonal with the inch
\* mark, the resolution label, hdType, panelType without any "-Level", the
\* refresh token and "Touch"; each appears only if its field is present
\* ("Touch" only if the box is checked) and a panelType that is nothing but
\* "-Level" contributes nothing.
Thm_C8_ScreenTokenOrder ==
    ScreenUpdated =>
        /\ \E hd \in {<<>>, form["screen_hd_type"]} : \E rf \in {<<>>, RefreshToken} :
               ScreenName = cleanJoin(strs(
                   <<DiagonalToken, LabelText, hd, PanelToken, rf, TouchToken>>))
        /\ form["screen_panel_type"] = sLevel => PanelToken = <<>>
        /\ ~includes(ScreenName, sLevel)
        /\ (\A id \in ScreenTextIds : form[id] = <<>>) =>
               ScreenName = TouchToken

Wit_C8_AllSixTokens ==
    /\ ScreenUpdated
    /\ ScreenName = <<"1", "5", ".", "6">> \o <<"\"">> \o <<" ", "4", "K", " ", "4", "K", " ", "U", "l", "t", "r", "a", " ", "H", "D", " ", "I", "P", "S", " ", "1", "2", "0", "H", "z", " ", "T", "o", "u", "c", "h">>

-----------------------------------------------------------------------------
(* Properties of the discrete GPU name *)

DiscreteUpdated ==
    last = "updateDiscreteGPU" /\ "discrete_gpu_full_name" \in elements

DiscreteWritten ==
    /\ last \in {"updateDiscreteGPU", "populateForm"}
    /\ "discrete_gpu_full_name" \in elements

DiscreteName == form["discrete_gpu_full_name"]

\* C9: whenever updateDiscreteGPU ran last with has_discrete_gpu unchecked,
\* the discrete GPU full name is empty, whatever brand, model, memory and
\* memory type hold.
Thm_C9_FlagGatesName ==
    (DiscreteUpdated /\ ~checked["has_discrete_gpu"]) => DiscreteName = <<>>

Wit_C9_UncheckedWithFields ==
    /\ DiscreteUpdated
    /\ ~checked["has_discrete_gpu"]
    /\ form["discrete_gpu_brand"] = sNVIDIA
    /\ form["discrete_gpu_model"] = sRTX4060
    /\ form["discrete_gpu_memory_gb"] = s8
    /\ DiscreteName = <<>>

\* C10: with has_discrete_gpu checked the discrete GPU full name is cleanJoin
\* of [brand, model, "<memory>GB", memoryType], brand being included only if
\* it is non-empty and not a case-insensitive substring of model, and the
\* memory token only if memory is present.
Thm_C10_DiscreteName ==
    (DiscreteWritten /\ checked["has_discrete_gpu"]) =>
        LET brand == form["discrete_gpu_brand"]
            model == form["discrete_gpu_model"]
            memory == form["discrete_gpu_memory_gb"]
            brandTok == IF brand # <<>> /\ ~ContainsCI(model, brand)
                        THEN brand ELSE <<>>
            memTok == IF memory # <<>> THEN memory \o <<"G", "B">> ELSE <<>>
        IN  DiscreteName = cleanJoin(<<Str(brandTok), Str(model), Str(memTok),
                                       Str(form["discrete_gpu_memory_type"])>>)

Wit_C10_BrandInsideModel ==
    /\ DiscreteUpdated
    /\ checked["has_discrete_gpu"]
    /\ form["discrete_gpu_brand"] = sNVIDIA
    /\ form["discrete_gpu_model"] = sNvidiaGeForce
    /\ form["discrete_gpu_memory_gb"] = s8
    /\ form["discrete_gpu_memory_type"] = sGDDR6
    /\ DiscreteName = <<"N", "v", "i", "d", "i", "a", " ", "G", "e", "F", "o", "r", "c", "e", " ", "R", "T", "X", " ", "4", "0", "6", "0", " ", "8", "G", "B", " ", "G", "D", "D", "R", "6">>

-----------------------------------------------------------------------------
(* Properties of the integrated GPU name *)

OnboardWritten ==
    /\ last \in {"updateOnboardGPU", "populateForm"}
    /\ "onboard_gpu_full_name" \in elements

OnboardName == form["onboard_gpu_full_name"]

OnboardMemoryToken ==
    IF form["onboard_gpu_memory_gb"] = <<>> THEN <<>>
    ELSE form["onboard_gpu_memory_gb"] \o <<"G", "B">>

\* x is kept next to the model: it is non-empty and not inside the model text
KeptBesideModel(x) ==
    x # <<>> /\ ~ContainsCI(form["onboard_gpu_model"], x)

\* C11: with or without the discrete flag, the integrated GPU full name is
\* cleanJoin of [brand, model, family, "<memory>GB"], brand and family each
\* being left out only when it is a case-insensitive substring of the model
\* text; neither is compared with the other or with the assembled name, and
\* a model that is inside brand or family suppresses nothing.
Thm_C11_OnboardName ==
    OnboardWritten =>
        LET brand == form["onboard_gpu_brand"]
            model == form["onboard_gpu_model"]
            family == form["onboard_gpu_family"]
            brandTok == IF KeptBesideModel(brand) THEN brand ELSE <<>>
            famTok == IF KeptBesideModel(family) THEN family ELSE <<>>
        IN  /\ OnboardName = cleanJoin(<<Str(brandTok), Str(model), Str(famTok),
                                         Str(OnboardMemoryToken)>>)
            /\ (model # <<>> /\ brand = family /\ KeptBesideModel(brand)) =>
                   OnboardName = cleanJoin(<<Str(brand), Str(model), Str(family),
                                             Str(OnboardMemoryToken)>>)
            /\ (model # <<>> /\ ContainsCI(brand, model)
                /\ ~ContainsCI(model, brand)) =>
                   OnboardName = cleanJoin(<<Str(brand), Str(model), Str(famTok),
                                             Str(OnboardMemoryToken)>>)

Wit_C11_FamilyInsideModelBrandOutside ==
    /\ last = "updateOnboardGPU"
    /\ checked["has_discrete_gpu"]
    /\ form["onboard_gpu_brand"] = sIrisXeGraphics
    /\ form["onboard_gpu_model"] = sIrisXe
    /\ form["onboard_gpu_family"] = <<"x", "e">>
    /\ form["onboard_gpu_memory_gb"] = s8
    /\ OnboardName = <<"I", "r", "i", "s", " ", "X", "e", " ", "G", "r", "a", "p", "h", "i", "c", "s", " ", "I", "r", "i", "s", " ", "X", "e", " ", "8", "G", "B">>

\* C12: brand "Intel", model "Iris Xe", family "Intel" and no memory give the
\* full name "Intel Iris Xe"; the family equal to the brand is not repeated
\* after the model.
Cex_C12_FamilyEqualToBrandNotRepeated ==
    (/\ OnboardWritten
     /\ form["onboard_gpu_brand"] = sIntel
     /\ form["onboard_gpu_model"] = sIrisXe
     /\ form["onboard_gpu_family"] = sIntel
     /\ form["onboard_gpu_memory_gb"] = <<>>) =>
        OnboardName = <<"I", "n", "t", "e", "l", " ", "I", "r", "i", "s", " ", "X", "e">>

-----------------------------------------------------------------------------
(* Properties of the storage capacity token *)

CapacityGiven == capOut.called /\ capIn.s # <<>>

CapacityGb == DecValue(capIn.s)

\* capacityGb / 1024 in tenths, rounded to the nearest (a tie goes up)
RoundedTenths ==
    CHOOSE r \in {(10 * CapacityGb) \div 1024, (10 * CapacityGb) \div 1024 + 1} :
        /\ 2 * 1024 * r - 1024 <= 2 * 10 * CapacityGb
        /\ 2 * 10 * CapacityGb < 2 * 1024 * r + 1024

OneDecimal ==
    DigitsOf(RoundedTenths \div 10) \o <<".">> \o DigitsOf(RoundedTenths % 10)

\* C13: the capacity token is "<capacityGb>GB" below 1024 and, from 1024 on,
\* capacityGb/1024 rounded to one decimal followed by "TB", the decimal part
\* being omitted exactly when the rounded decimal digit is 0; an absent
\* capacity gives no token.
Thm_C13_CapacityToken ==
    capOut.called =>
        /\ capIn.s = <<>> => capOut.v = <<>>
        /\ (CapacityGiven /\ CapacityGb < 1024) => capOut.v = capIn.s \o <<"G", "B">>
        /\ (CapacityGiven /\ CapacityGb >= 1024) =>
               capOut.v = DigitsOf(RoundedTenths \div 10)
                          \o (IF RoundedTenths % 10 = 0 THEN <<>>
                              ELSE <<".">> \o DigitsOf(RoundedTenths % 10))
                          \o <<"T", "B">>
        /\ capIn.s = <<"1", "0", "2", "4">> => capOut.v = <<"1", "T", "B">>
        /\ capIn.s = <<"1", "5", "3", "6">> => capOut.v = <<"1", ".", "5", "T", "B">>
        /\ capIn.s = <<"1", "0", "2", "3">> => capOut.v = <<"1", "0", "2", "3", "G", "B">>

Wit_C13_HalfTerabyteKept ==
    capOut.called /\ capIn = Str(<<"1", "5", "3", "6">>) /\ capOut.v = <<"1", ".", "5", "T", "B">>

\* s without a ".0" that ends it
StripTrailingDotZero(s) ==
    IF Len(s) >= 2 /\ SubSeq(s, Len(s) - 1, Len(s)) = <<".", "0">>
    THEN SubSeq(s, 1, Len(s) - 2) ELSE s

\* C14: for every integer capacity of 1024 GB or more, removing the first
\* ".0" of the one-decimal terabyte text gives what removing a ".0" at the
\* end of the number gives: the integer part is never altered and a non-zero
\* decimal digit is never dropped.
Thm_C14_StripOnlyTrailingZero ==
    (CapacityGiven /\ CapacityGb >= 1024) =>
        /\ capOut.v = StripTrailingDotZero(OneDecimal) \o <<"T", "B">>
        /\ SubSeq(capOut.v, 1, Len(DigitsOf(RoundedTenths \div 10)))
               = DigitsOf(RoundedTenths \div 10)
        /\ RoundedTenths % 10 # 0 =>
               includes(capOut.v, <<".">> \o DigitsOf(RoundedTenths % 10) \o <<"T", "B">>)
        /\ capIn.s = <<"1", "0", "2", "4", "0">> => capOut.v = <<"1", "0", "T", "B">>
        /\ capIn.s = <<"1", "0", "3", "4", "2", "4">> => capOut.v = <<"1", "0", "1", "T", "B">>

Wit_C14_ZeroInsideIntegerPart ==
    capOut.called /\ capIn = Num(<<"1", "0", "2", "4", "0">>) /\ capOut.v = <<"1", "0", "T", "B">>

-----------------------------------------------------------------------------
(* Properties of the storage name *)

StorageUpdated == last = "updateStorage" /\ "storage_full_name" \in elements

StorageWritten ==
    last \in {"updateStorage", "populateForm"} /\ "storage_full_name" \in elements

StorageName == form["storage_full_name"]

\* the capacity token of the capacity now in the form
CapacityTokenNow ==
    LET capacity == form["storage_capacity"]
    IN  IF capacity = <<>> THEN <<>>
        ELSE IF AllDigits(capacity) /\ DecValue(capacity) >= 1024
        THEN terabytes(DecValue(capacity))
        ELSE capacity \o <<"G", "B">>

NvmeToken == IF checked["storage_nvme"] THEN <<"N", "V", "M", "e">> ELSE <<>>

\* how many of the words of s equal w when letter case is ignored
TimesAsWord(s, w) ==
    Cardinality({n \in 1..Len(Words(s)) : toLowerCase(Words(s)[n]) = toLowerCase(w)})

\* C15: the storage full name is the join through cleanJoin of [capacity
\* token, media, "NVMe" if isNvme, formFactor], and a media value equal to
\* formFactor ignoring case appears as a single token.
Cex_C15_MediaEqualToFormFactorCollapses ==
    StorageWritten =>
        /\ StorageName = cleanJoin(strs(<<CapacityTokenNow, form["storage_media"],
                                          NvmeToken, form["storage_form_factor"]>>))
        /\ (/\ form["storage_media"] # <<>>
            /\ toLowerCase(form["storage_media"])
                   = toLowerCase(form["storage_form_factor"])) =>
               TimesAsWord(StorageName, form["storage_media"]) = 1

\* C19: a non-numeric value where a number is expected contributes no token;
\* for the storage capacity, a capacity that is not a number does not show in
\* the storage full name.
Cex_C19_NonNumericOmitted ==
    (StorageUpdated /\ form["storage_capacity"] # <<>>
                    /\ ~AllDigits(form["storage_capacity"])) =>
        /\ ~includes(StorageName, form["storage_capacity"])
        /\ StorageName = cleanJoin(strs(<<form["storage_media"], NvmeToken,
                                          form["storage_form_factor"]>>))

-----------------------------------------------------------------------------
(* Properties of the RAM name *)

RamWritten == last \in {"updateRAM", "populateForm"} /\ "ram_full_name" \in elements

RamName == form["ram_full_name"]

\* the field's text followed by its unit, nothing for an empty field
WithUnit(id, unit) == IF form[id] = <<>> THEN <<>> ELSE form[id] \o unit

-----------------------------------------------------------------------------
(* Properties of the six updaters *)

Updaters ==
    {"updateProcessor", "updateScreen", "updateDiscreteGPU", "updateOnboardGPU",
     "updateStorage", "updateRAM"}

\* the full-name field updater u writes
TargetOf(u) ==
    CASE u = "updateProcessor" -> "processor_full_name"
      [] u = "updateScreen" -> "screen_full_name"
      [] u = "updateDiscreteGPU" -> "discrete_gpu_full_name"
      [] u = "updateOnboardGPU" -> "onboard_gpu_full_name"
      [] u = "updateStorage" -> "storage_full_name"
      [] u = "updateRAM" -> "ram_full_name"

\* the constituent fields of updater u
InputsOf(u) ==
    CASE u = "updateProcessor" -> ProcessorIds
      [] u = "updateScreen" -> ScreenIds
      [] u = "updateDiscreteGPU" -> DiscreteIds
      [] u = "updateOnboardGPU" -> OnboardIds
      [] u = "updateStorage" -> StorageIds
      [] u = "updateRAM" -> RamIds

\* the form after updater u ran on form f and boxes c
Ran(u, f, c) ==
    CASE u = "updateProcessor" -> updateProcessor(f)
      [] u = "updateScreen" -> updateScreen(f, c)
      [] u = "updateDiscreteGPU" -> updateDiscreteGPU(f, c)
      [] u = "updateOnboardGPU" -> updateOnboardGPU(f)
      [] u = "updateStorage" -> updateStorage(f, c)
      [] u = "updateRAM" -> updateRAM(f)

\* the ids whose text or checked state differs between this state and the next
Changed ==
    {id \in TextIds : form'[id] # form[id]}
    \cup {id \in CheckIds : checked'[id] # checked[id]}

\* C17: a step that runs one of the six updaters changes nothing but the
\* field the event itself changed, which is one of the updater's own, and the
\* updater's own full-name field; the input fields of the other components
\* and the five other full-name fields stay as they were, and with the
\* target missing from the page the updater changes nothing at all.
Thm_C17_UpdaterFrame ==
    [][last' \in Updaters =>
         /\ Changed \subseteq InputsOf(last') \cup {TargetOf(last')}
         /\ Cardinality(Changed \cap InputsOf(last')) <= 1
         /\ \A id \in FullNameIds \ {TargetOf(last')} : form'[id] = form[id]
         /\ TargetOf(last') \notin elements => Changed \subseteq InputsOf(last')]_vars

Wit_C17_OtherNamesKept ==
    /\ last = "updateRAM"
    /\ form["ram_full_name"] = <<"1", "6", "G", "B">>
    /\ form["processor_full_name"] = sX
    /\ form["storage_full_name"] = sX
    /\ form["processor_model"] = sI71260P

\* the form with nothing but the constituent fields of updater u filled in
OnlyInputsOf(u) == [id \in TextIds |-> IF id \in InputsOf(u) THEN form[id] ELSE <<>>]

OnlyBoxesOf(u) == [id \in CheckIds |-> id \in InputsOf(u) /\ checked[id]]

\* C18: the name an updater leaves is the one it computes from its
\* constituent fields alone, on an otherwise empty form: it does not depend
\* on what the full-name field held before nor on the calls made before, and
\* running the updater again without a change of input leaves the form as it
\* was after the first run.
Thm_C18_NoHiddenState ==
    /\ [](last \in Updaters /\ TargetOf(last) \in elements =>
            form[TargetOf(last)]
                = Ran(last, OnlyInputsOf(last), OnlyBoxesOf(last))[TargetOf(last)])
    /\ [][(last \in Updaters /\ last' = last /\ Changed \cap InputsOf(last) = {})
             => form' = form]_vars

Wit_C18_StaleNameReplaced ==
    /\ last = "updateStorage"
    /\ form["storage_full_name"] = <<"1", "T", "B">>
    /\ form["processor_full_name"] = sX
    /\ form["discrete_gpu_full_name"] = sX
    /\ form["ram_capacity"] = s16

\* C20: once an input or change event on a constituent field has been
\* handled, the full name of that component is what its updater computes from
\* the values the form holds now, after every sequence of such events.
Thm_C20_RecomputedOnEveryChange ==
    (last \in Updaters /\ TargetOf(last) \in elements) =>
        form = Ran(last, form, checked)

Wit_C20_CheckboxChangeHandled ==
    /\ last = "updateDiscreteGPU"
    /\ checked["has_discrete_gpu"]
    /\ form["discrete_gpu_model"] = sRTX4060
    /\ form["discrete_gpu_full_name"] = sRTX4060
    /\ form["storage_full_name"] = <<"1", "T", "B">>

-----------------------------------------------------------------------------
(* Properties of the import path against the reactive path *)

\* C22: for the same screen field values the screen full name that
\* populateForm writes equals the one updateScreen computes from the fields
\* now in the form, also for a refresh rate of 60 or less and for a touch
\* screen.
Cex_C22_ImportEqualsReactiveScreen ==
    (last = "populateForm" /\ "screen_full_name" \in elements) =>
        ScreenName = updateScreen(form, checked)["screen_full_name"]

\* C23: when populateForm returns on the page with the listeners, every
\* full-name field equals what its reactive updater computes from the fields
\* now in the form, so that a change event which alters no value alters no
\* full name.
Cex_C23_ImportLeavesFormStable ==
    (last = "populateForm" /\ listening) =>
        \A u \in Updaters :
            TargetOf(u) \in elements => Ran(u, form, checked) = form

\* C24: after populateForm for a product without discrete GPU
\* (tiene_dedicada false) the discrete GPU full name is empty, whatever an
\* earlier import left in it, with the reactive listeners on the page and
\* without them.
Cex_C24_NoDiscreteNoName ==
    (/\ last = "populateForm"
     /\ "tarjeta_grafica" \in product.has
     /\ ~Boolean(product.tarjeta_grafica.tiene_dedicada)) => DiscreteName = <<>>

-----------------------------------------------------------------------------
(* Properties of reactiveLogic.init *)

\* C21: init leaves a full-name field that holds a value as it is and fills
\* an empty one with what its updater computes from the constituent fields;
\* a name changes only in init when it was empty, or in a later event on one
\* of its constituent fields.
Thm_C21_InitKeepsPreloadedNames ==
    [][\A u \in Updaters :
          /\ (~listening /\ listening' /\ form[TargetOf(u)] # <<>>) =>
                form'[TargetOf(u)] = form[TargetOf(u)]
          /\ (~listening /\ listening' /\ form[TargetOf(u)] = <<>>) =>
                form'[TargetOf(u)] = Ran(u, form, checked)[TargetOf(u)]
          /\ form'[TargetOf(u)] # form[TargetOf(u)] =>
                \/ ~listening /\ listening' /\ form[TargetOf(u)] = <<>>
                \/ listening /\ last' = u /\ Changed \cap InputsOf(u) # {}]_vars

Wit_C21_PreloadedKeptEmptyFilled ==
    /\ last = "init"
    /\ form["processor_model"] = sI71260P
    /\ form["processor_full_name"] = sX
    /\ form["storage_capacity"] = s1024
    /\ form["storage_full_name"] = <<"1", "T", "B">>

-----------------------------------------------------------------------------
(* Properties of SerialInput *)

\* the serial as addSerial stores and compares it
Normalized(serial) == toUpperCase(trim(serial))

InList(serial) == \E i \in 1..Len(serials) : Normalized(serials[i]) = Normalized(serial)

\* C25: after any sequence of addSerial and removeSerial calls no two
\* entries have the same trimmed upper-cased serial, and with allowMultiple
\* false the list holds at most one serial; an addSerial of a serial already
\* in the list leaves the list as it is and fires no onSerialAdded, and with
\* allowMultiple false an addSerial of a new serial leaves that serial alone
\* in the list.
Thm_C25_NoDuplicateSerials ==
    /\ [](/\ \A i, j \in 1..Len(serials) :
                Normalized(serials[i]) = Normalized(serials[j]) => i = j
          /\ ~allowMultiple => Len(serials) <= 1)
    /\ [][(serialCall'.op = "addSerial" /\ Boolean(serialCall'.arg)) =>
             /\ InList(serialCall'.arg.s) =>
                   serials' = serials /\ ~serialCall'.fired
             /\ (~InList(serialCall'.arg.s) /\ ~allowMultiple) =>
                   serials' = <<Normalized(serialCall'.arg.s)>> /\ serialCall'.fired
             /\ (~InList(serialCall'.arg.s) /\ allowMultiple) =>
                   serials' = Append(serials, Normalized(serialCall'.arg.s))]_vars

Wit_C25_SameSerialInOtherCaseIgnored ==
    /\ allowMultiple
    /\ serials = <<<<"A", "B", "1">>, <<"X", "2">>>>
    /\ serialCall = [op |-> "addSerial", arg |-> Str(<<" ", "a", "b", "1", " ">>), fired |-> FALSE]

-----------------------------------------------------------------------------
(* Properties of the keyboard-wedge scan detector *)

\* the characters the keydown handler finds buffered, after its gap test
Buffered == afterGap(buffer, sinceLastKey)

\* a keydown event is handled in this step
KeyStep == wedgeCall'.op \in {"suffix", "control", "char", "slow"} /\ sinceLastKey' = 0

\* C26 as stated: the suffix key triggers a scan if and only if the buffer
\* holds at least minCodeLength characters.
Cex_C26_SuffixScansIffLongEnough ==
    [][wedgeCall'.op = "suffix" =>
          (wedgeCall'.scanned <=> Len(Buffered) >= minCodeLength)]_vars

\* C26: the suffix key records a scan if and only if the buffer, once
\* trimmed, holds at least minCodeLength characters; after the suffix key the
\* buffer is empty and no idle timeout is pending, every step that records a
\* scan, by the suffix or by the idle timeout, leaves the buffer empty and no
\* timeout pending, so that no second scan comes from the same burst, and a
\* key that arrives after a gap longer than maxTimeBetweenChars leaves none
\* of the characters buffered before it.
Thm_C26_BurstHandledOnce ==
    /\ [][wedgeCall'.op = "suffix" =>
             /\ wedgeCall'.scanned <=> Len(trim(Buffered)) >= minCodeLength
             /\ wedgeCall'.scanned => wedgeCall'.code = toUpperCase(trim(Buffered))
             /\ buffer' = <<>> /\ timeoutId' = -1]_vars
    /\ [](wedgeCall.scanned => buffer = <<>> /\ timeoutId = -1)
    /\ [][(KeyStep /\ sinceLastKey > maxTimeBetweenChars) =>
             \/ buffer' = <<>>
             \/ Len(buffer') = 1 /\ wedgeCall'.op = "char"]_vars

Wit_C26_PaddedBufferNotScanned ==
    /\ wedgeCall = [op |-> "suffix", scanned |-> FALSE, code |-> <<>>,
                    arg |-> <<" ", "a", "1">>]
    /\ buffer = <<>>
    /\ timeoutId = -1
    /\ sinceLastKey = 0

-----------------------------------------------------------------------------
(* Properties of IcecatScanner *)

\* the step calls fetchData
FetchDataCalled == icecatCall'.op \in {"click", "enter", "decode"}

\* C27: a fetchData call with a GTIN that is empty after trimming sends no
\* request and leaves the loading state as it is; with any other GTIN it
\* enters the loading state and sends one request for the trimmed GTIN; when
\* a call ends, by success, by failure or by a throw of fetch or of json(),
\* the loading state is left, and the form is populated only in a step that
\* ends a call with success.
Thm_C27_FetchDataLoadingState ==
    [][/\ (FetchDataCalled /\ trim(icecatCall'.gtin) = <<>>) =>
             fetches' = fetches /\ loading' = loading /\ icecatCall'.outcome = "alert"
       /\ (FetchDataCalled /\ trim(icecatCall'.gtin) # <<>>) =>
             /\ loading'
             /\ fetches' = Append(fetches, [gtin |-> trim(icecatCall'.gtin),
                                           stage |-> "fetch"])
       /\ icecatCall'.op = "settled" =>
             /\ ~loading'
             /\ Len(fetches') = Len(fetches) - 1
             /\ icecatCall'.outcome = "success" =>
                   /\ last' = "populateForm"
                   /\ form' = populateForm([f |-> form, c |-> checked], product').f
       /\ ~(icecatCall'.op = "settled" /\ icecatCall'.outcome = "success") =>
             form' = form /\ checked' = checked /\ last' = last]_vars

Wit_C27_ThrowLeavesLoading ==
    /\ icecatCall = [op |-> "settled", gtin |-> <<>>, outcome |-> "json throws"]
    /\ ~loading
    /\ fetches = <<>>
    /\ last = "init"

Started == {i \in 1..MaxInstances : instances[i] = "started"}

\* C28: at most one camera scanner instance is started and not yet stopped,
\* and isScannerRunning is true exactly when there is one, for every
\* interleaving of toggle clicks, decode callbacks and the settling of
\* start() and stop().
Cex_C28_OneScannerInstance ==
    /\ Cardinality(Started) <= 1
    /\ isScannerRunning <=> Started # {}

\* C29: while a fetch is in flight the fetch button is disabled and the
\* spinner is shown, for every interleaving of fetches started by the button,
\* by Enter in the GTIN input and by the decode callback.
Cex_C29_LoadingWhileInFlight == fetches # <<>> => loading

-----------------------------------------------------------------------------
(* Properties of the catalog manager *)

\* C30: the page number is never below 1; a catalog switch, a search and a
\* show-inactive change set it to 1; and once no request is in flight and no
\* request has failed, the rows shown are the response to the request for
\* the current catalog, page, search text and show-inactive setting, in
\* whatever order overlapping responses arrived.
Cex_C30_ShownMatchesCurrentRequest ==
    /\ currentState.page >= 1
    /\ catalogCall \in {"loadCatalog", "handleSearch", "handleShowInactive"} =>
          currentState.page = 1
    /\ (requests = <<>> /\ ~errorToast) => tableBody = paramsOf(currentState)

====
